---- MODULE Spec2Model ----
(***************************************************************************)
(* A model of alpha_vantage_mcp_server/handlers.py: the request routers,   *)
(* the indicator packs and the tabular decoders.  One handler invocation   *)
(* is one behaviour: the handler is entered from pc = "idle", suspends at  *)
(* each Data Source call (pc = "awaiting") and ends in pc = "returned" or  *)
(* pc = "raised".  The Data Source (api_helpers) is the environment: its   *)
(* payloads are chosen from bounded sets.                                  *)
(*                                                                         *)
(* Python values: None is the empty tuple and Some(v) the one-element      *)
(* tuple; a payload is tagged with its Python type (PyDict, PyStr); a dict *)
(* whose iteration order matters is a sequence of <<key, value>> pairs;    *)
(* delimited text is a sequence of characters.                             *)
(***************************************************************************)
EXTENDS Integers, Sequences, FiniteSets, TLC

VARIABLES pc, handler, args, calls, responses, result, error

vars == <<pc, handler, args, calls, responses, result, error>>

---------------------------------------------------------------------------
(* Python values *)

None == <<>>
Some(v) == <<v>>

PyDict(d) == [type |-> "dict", d |-> d]
PyStr(s) == [type |-> "str", s |-> s]
IsDict(x) == x.type = "dict"

NoError == [type |-> "none", message |-> ""]
ValueError(msg) == [type |-> "ValueError", message |-> msg]

\* d[key] = value on a dict held as a function from keys
DictSet(d, key, value) ==
    [k \in DOMAIN d \cup {key} |-> IF k = key THEN value ELSE d[k]]

\* d.update(other)
DictUpdate(d, other) ==
    [k \in DOMAIN d \cup DOMAIN other |-> IF k \in DOMAIN other THEN other[k] ELSE d[k]]

Call(op, kwargs) == [op |-> op, kwargs |-> kwargs]

\* the sequences over S of length at most n
SeqsUpTo(S, n) == UNION {[1..k -> S] : k \in 0..n}

---------------------------------------------------------------------------
(* Init: no handler has been entered *)

Init ==
    /\ pc = "idle"
    /\ handler = "none"
    /\ args = None
    /\ calls = <<>>
    /\ responses = <<>>
    /\ result = None
    /\ error = NoError

---------------------------------------------------------------------------
(* fetch_time_series: the time-series router *)

Symbols == {"IBM", "AAPL"}

SupportedIntervals ==
    {"1min", "5min", "15min", "30min", "60min", "daily", "weekly", "monthly"}

\* interval values a caller may pass: the supported tags and others
IntervalInputs == SupportedIntervals \cup {"intraday", "yearly", "Daily", ""}

intraday_intervals_drop60 == {"1min", "5min", "15min", "30min"}

intraday_intervals == {"1min", "5min", "15min", "30min", "60min"}

\* a table that also answers an interval outside the supported set
function_map_yearly ==
    <<"daily", FALSE>> :> "fetch_time_series_daily"
    @@ <<"daily", TRUE>> :> "fetch_time_series_daily_adjusted"
    @@ <<"weekly", FALSE>> :> "fetch_time_series_weekly"
    @@ <<"weekly", TRUE>> :> "fetch_time_series_weekly_adjusted"
    @@ <<"monthly", FALSE>> :> "fetch_time_series_monthly"
    @@ <<"monthly", TRUE>> :> "fetch_time_series_monthly_adjusted"
    @@ <<"yearly", FALSE>> :> "fetch_time_series_monthly"
    @@ <<"yearly", TRUE>> :> "fetch_time_series_monthly_adjusted"

function_map_swapped ==
    <<"daily", FALSE>> :> "fetch_time_series_daily_adjusted"
    @@ <<"daily", TRUE>> :> "fetch_time_series_daily"
    @@ <<"weekly", FALSE>> :> "fetch_time_series_weekly"
    @@ <<"weekly", TRUE>> :> "fetch_time_series_weekly_adjusted"
    @@ <<"monthly", FALSE>> :> "fetch_time_series_monthly"
    @@ <<"monthly", TRUE>> :> "fetch_time_series_monthly_adjusted"

function_map ==
    <<"daily", FALSE>> :> "fetch_time_series_daily"
    @@ <<"daily", TRUE>> :> "fetch_time_series_daily_adjusted"
    @@ <<"weekly", FALSE>> :> "fetch_time_series_weekly"
    @@ <<"weekly", TRUE>> :> "fetch_time_series_weekly_adjusted"
    @@ <<"monthly", FALSE>> :> "fetch_time_series_monthly"
    @@ <<"monthly", TRUE>> :> "fetch_time_series_monthly_adjusted"

\* the Data Source call fetch_time_series issues, None when it raises
TimeSeriesRoute(a) ==
    IF a.interval \in intraday_intervals
    THEN Some(Call("fetch_intraday",
                   [symbol |-> a.symbol, interval |-> a.interval, datatype |-> "json",
                    adjusted |-> a.adjusted, extended_hours |-> a.extended_hours,
                    outputsize |-> a.outputsize, month |-> a.month]))
    ELSE IF <<a.interval, a.adjusted>> \notin DOMAIN function_map
    THEN None
    ELSE IF a.interval = "daily"
    THEN Some(Call(function_map[<<a.interval, a.adjusted>>],
                   [symbol |-> a.symbol, datatype |-> "json", outputsize |-> a.outputsize]))
    ELSE Some(Call(function_map[<<a.interval, a.adjusted>>],
                   [symbol |-> a.symbol, datatype |-> "json"]))

TimeSeriesArgs ==
    [symbol : Symbols, interval : IntervalInputs, adjusted : BOOLEAN,
     outputsize : {"compact", "full"}, month : {None, Some("2024-03")},
     extended_hours : BOOLEAN]

\* payloads the time-series operations of the Data Source answer with
TimeSeriesPayloads ==
    {PyDict([Information |-> "rate limit"]),
     PyDict([MetaData |-> "meta", TimeSeries |-> "series"]),
     PyStr("timestamp,open\n")}

\* entry of fetch_time_series up to its await, or up to its raise
FetchTimeSeriesCall ==
    /\ pc = "idle"
    /\ \E a \in TimeSeriesArgs :
        /\ handler' = "fetch_time_series"
        /\ args' = a
        /\ IF TimeSeriesRoute(a) = None
           THEN /\ pc' = "raised"
                /\ error' = ValueError("Unsupported interval: " \o a.interval)
                /\ calls' = calls
           ELSE /\ pc' = "awaiting"
                /\ error' = error
                /\ calls' = Append(calls, TimeSeriesRoute(a)[1])
    /\ UNCHANGED <<responses, result>>

\* the awaited call answers and fetch_time_series returns the payload as it is
FetchTimeSeriesReturn ==
    /\ pc = "awaiting"
    /\ handler = "fetch_time_series"
    /\ \E payload \in TimeSeriesPayloads :
        /\ responses' = Append(responses, payload)
        /\ result' = Some(payload)
        /\ pc' = "returned"
    /\ UNCHANGED <<handler, args, calls, error>>

NextTimeSeries == FetchTimeSeriesCall \/ FetchTimeSeriesReturn

SpecTimeSeries == Init /\ [][NextTimeSeries]_vars

---------------------------------------------------------------------------
(* The indicator packs: get_trend_indicators, get_momentum_indicators,     *)
(* get_volatility_indicators, get_volume_indicators                        *)

MaxEntries == 21

\* "if count >= 20: break"
ItemCap == 20

PackNames ==
    {"get_trend_indicators", "get_momentum_indicators",
     "get_volatility_indicators", "get_volume_indicators"}

\* the indicators of a pack, in the order they are fetched and merged
PackIndicators(pack) ==
    CASE pack = "get_trend_indicators" -> <<"SMA", "EMA", "WMA", "MACD">>
      [] pack = "get_momentum_indicators" -> <<"RSI", "STOCH", "CCI", "MFI">>
      [] pack = "get_volatility_indicators" -> <<"BBANDS", "ATR", "SAR">>
      [] pack = "get_volume_indicators" -> <<"OBV", "AD", "ADOSC">>

\* the indicator a pack expands by component ("" where it has none)
MultiValueIndicator(pack) ==
    CASE pack = "get_trend_indicators" -> "MACD"
      [] pack = "get_momentum_indicators" -> "STOCH"
      [] pack = "get_volatility_indicators" -> "BBANDS"
      [] pack = "get_volume_indicators" -> ""

FetchOp ==
    [SMA |-> "fetch_sma", EMA |-> "fetch_ema", WMA |-> "fetch_wma", MACD |-> "fetch_macd",
     RSI |-> "fetch_rsi", STOCH |-> "fetch_stoch", CCI |-> "fetch_cci", MFI |-> "fetch_mfi",
     BBANDS |-> "fetch_bbands", ATR |-> "fetch_atr", SAR |-> "fetch_sar",
     OBV |-> "fetch_obv", AD |-> "fetch_ad", ADOSC |-> "fetch_adosc"]

TrendPreset(period, fast, slow, signal) ==
    [SMA |-> [time_period |-> period], EMA |-> [time_period |-> period],
     WMA |-> [time_period |-> period],
     MACD |-> [fastperiod |-> fast, slowperiod |-> slow, signalperiod |-> signal]]

MomentumPreset(rsi, fastk, slowk, slowd, cci, mfi) ==
    [RSI |-> [time_period |-> rsi],
     STOCH |-> [fastkperiod |-> fastk, slowkperiod |-> slowk, slowdperiod |-> slowd,
                slowkmatype |-> 0, slowdmatype |-> 0],
     CCI |-> [time_period |-> cci], MFI |-> [time_period |-> mfi]]

\* acceleration and maximum are decimals, kept as their numerals
VolatilityPreset(bbands, atr, acceleration, maximum) ==
    [BBANDS |-> [time_period |-> bbands, nbdevup |-> 2, nbdevdn |-> 2, matype |-> 0],
     ATR |-> [time_period |-> atr],
     SAR |-> [acceleration |-> acceleration, maximum |-> maximum]]

VolumePreset(fast, slow) == [ADOSC |-> [fastperiod |-> fast, slowperiod |-> slow]]

presets(pack) ==
    CASE pack = "get_trend_indicators" ->
            [fast |-> TrendPreset(10, 8, 17, 5),
             standard |-> TrendPreset(20, 12, 26, 9),
             slow |-> TrendPreset(50, 19, 39, 9)]
      [] pack = "get_momentum_indicators" ->
            [fast |-> MomentumPreset(7, 5, 3, 3, 10, 7),
             standard |-> MomentumPreset(14, 14, 3, 3, 20, 14),
             slow |-> MomentumPreset(21, 21, 5, 5, 30, 21)]
      [] pack = "get_volatility_indicators" ->
            [fast |-> VolatilityPreset(14, 7, "0.03", "0.30"),
             standard |-> VolatilityPreset(20, 14, "0.02", "0.20"),
             slow |-> VolatilityPreset(30, 21, "0.01", "0.10")]
      [] pack = "get_volume_indicators" ->
            [fast |-> VolumePreset(2, 7),
             standard |-> VolumePreset(3, 10),
             slow |-> VolumePreset(5, 20)]

\* an unknown preset name resolved to the first preset
preset_config_first(pack, preset) ==
    IF preset \in DOMAIN presets(pack) THEN presets(pack)[preset]
    ELSE presets(pack)["fast"]

\* presets.get(preset, presets["standard"])
preset_config(pack, preset) ==
    IF preset \in DOMAIN presets(pack) THEN presets(pack)[preset]
    ELSE presets(pack)["standard"]

\* the calls that are passed **common
UsesCommon(pack, ind) == pack = "get_trend_indicators" \/ ind \in {"RSI", "BBANDS"}

\* the keyword arguments of the call that fetches ind
PackKwargs(pack, a, ind) ==
    [symbol |-> a.symbol, interval |-> a.interval]
    @@ (IF ind \in DOMAIN preset_config(pack, a.preset)
        THEN preset_config(pack, a.preset)[ind] ELSE <<>>)
    @@ (IF UsesCommon(pack, ind) THEN [series_type |-> "close"] ELSE <<>>)

PackCallOf(pack, a, i) ==
    Call(FetchOp[PackIndicators(pack)[i]], PackKwargs(pack, a, PackIndicators(pack)[i]))

\* str.lower() on the indicator names and the component field names
LowerTable ==
    [SMA |-> "sma", EMA |-> "ema", WMA |-> "wma", MACD |-> "macd",
     RSI |-> "rsi", STOCH |-> "stoch", CCI |-> "cci", MFI |-> "mfi",
     BBANDS |-> "bbands", ATR |-> "atr", SAR |-> "sar",
     OBV |-> "obv", AD |-> "ad", ADOSC |-> "adosc",
     MACD_Signal |-> "macd_signal", MACD_Hist |-> "macd_hist",
     SlowK |-> "slowk", SlowD |-> "slowd"]
    @@ ("Real Upper Band" :> "real upper band")
    @@ ("Real Middle Band" :> "real middle band")
    @@ ("Real Lower Band" :> "real lower band")
    @@ ("Chaikin A/D" :> "chaikin a/d")

Lower(s) == IF s \in DOMAIN LowerTable THEN LowerTable[s] ELSE s

\* the midnight suffix appended to every timestamp of a date interval
normalize_timestamp_date_always(timestamp, interval) ==
    IF interval \in {"daily", "weekly", "monthly"}
    THEN timestamp \o " 00:00:00"
    ELSE IF Len(timestamp) = 16 THEN timestamp \o ":00"
    ELSE IF Len(timestamp) = 19 THEN timestamp
    ELSE timestamp \o " 00:00:00"

\* no pass-through of a complete intraday timestamp
normalize_timestamp_no_pass(timestamp, interval) ==
    IF interval \in {"daily", "weekly", "monthly"}
    THEN IF Len(timestamp) = 10 THEN timestamp \o " 00:00:00" ELSE timestamp
    ELSE IF Len(timestamp) = 16 THEN timestamp \o ":00"
    ELSE timestamp \o " 00:00:00"

normalize_timestamp(timestamp, interval) ==
    IF interval \in {"daily", "weekly", "monthly"}
    THEN IF Len(timestamp) = 10 THEN timestamp \o " 00:00:00" ELSE timestamp
    ELSE IF Len(timestamp) = 16 THEN timestamp \o ":00"
    ELSE IF Len(timestamp) = 19 THEN timestamp
    ELSE timestamp \o " 00:00:00"

\* a cap test that lets one entry too many through
CapReachedLate(count) == count > ItemCap

\* "if count >= 20: break"
CapReached(count) == count >= ItemCap

\* the single-value branch taken for every indicator
ComponentAlwaysValue(multi, key) == "value"

\* component of an item: key.lower() for the pack's multi-value indicator,
\* "value" on the single-value branch
Component(multi, key) == IF multi THEN Lower(key) ELSE "value"

\* for key, value in values.items(): items.append({...})
RECURSIVE EntryItems(_, _, _, _, _)
EntryItems(values, timestamp, interval, indicator_name, multi) ==
    IF values = <<>> THEN <<>>
    ELSE <<[timestamp |-> normalize_timestamp(timestamp, interval),
            indicator |-> Lower(indicator_name),
            component |-> Component(multi, values[1][1]),
            value |-> values[1][2]]>>
         \o EntryItems(Tail(values), timestamp, interval, indicator_name, multi)

\* for timestamp, values in data["items"].items(): ... count += 1
RECURSIVE IndicatorItems(_, _, _, _, _)
IndicatorItems(entries, count, interval, indicator_name, multi) ==
    IF entries = <<>> \/ CapReached(count) THEN <<>>
    ELSE EntryItems(entries[1][2], entries[1][1], interval, indicator_name, multi)
         \o IndicatorItems(Tail(entries), count + 1, interval, indicator_name, multi)

\* the indicators merged last first
PackItemsReversed(pack, interval, data, i) ==
    LET n == Len(data)
        of(k) == IF IsDict(data[k]) /\ "items" \in DOMAIN data[k].d
                 THEN IndicatorItems(data[k].d["items"], 0, interval, PackIndicators(pack)[k],
                                     PackIndicators(pack)[k] = MultiValueIndicator(pack))
                 ELSE <<>>
        F[k \in 0..n] == IF k = 0 THEN <<>> ELSE of(k) \o F[k - 1]
    IN F[n]

\* for indicator_name, data in indicators.items(): ...
RECURSIVE PackItems(_, _, _, _)
PackItems(pack, interval, data, i) ==
    IF i > Len(data) THEN <<>>
    ELSE (IF IsDict(data[i]) /\ "items" \in DOMAIN data[i].d
          THEN IndicatorItems(data[i].d["items"], 0, interval, PackIndicators(pack)[i],
                              PackIndicators(pack)[i] = MultiValueIndicator(pack))
          ELSE <<>>)
         \o PackItems(pack, interval, data, i + 1)

PackResult(pack, a, data) ==
    PyDict([metadata |-> [symbol |-> a.symbol, interval |-> a.interval, preset |-> a.preset],
            items |-> PackItems(pack, a.interval, data, 1)])

PackArgs ==
    [symbol : {"IBM"}, interval : {"daily", "5min"},
     preset : {"fast", "standard", "slow", "turbo"}]

DigitStr == <<"0", "1", "2", "3", "4", "5", "6", "7", "8", "9">>

TwoDigits(n) == DigitStr[(n \div 10) + 1] \o DigitStr[(n % 10) + 1]

\* the timestamp key of the entry of day n, as a date or down to the second
Stamp(fmt, n) ==
    IF fmt = "date" THEN "2024-01-" \o TwoDigits(n)
    ELSE "2024-01-" \o TwoDigits(n) \o " 09:30:00"

\* the fields the Data Source documents for an indicator
NativeFields(ind) ==
    CASE ind = "MACD" -> <<"MACD", "MACD_Signal", "MACD_Hist">>
      [] ind = "STOCH" -> <<"SlowK", "SlowD">>
      [] ind = "BBANDS" -> <<"Real Upper Band", "Real Middle Band", "Real Lower Band">>
      [] ind = "AD" -> <<"Chaikin A/D">>
      [] OTHER -> <<ind>>

\* an entry that carries one field more than documented
ExtraFields(ind) == NativeFields(ind) \o <<"Volume">>

\* the shapes of an items response: ascending dates with the documented
\* fields, or descending full timestamps with an extra field
ResponseVariants ==
    {[fmt |-> "date", descending |-> FALSE, extra |-> FALSE],
     [fmt |-> "second", descending |-> TRUE, extra |-> TRUE]}

ItemsResponse(ind, n, variant) ==
    LET fields == IF variant.extra THEN ExtraFields(ind) ELSE NativeFields(ind)
        day(i) == IF variant.descending THEN n + 1 - i ELSE i
    IN PyDict([items |->
                 [i \in 1..n |->
                    <<Stamp(variant.fmt, day(i)),
                      [j \in 1..Len(fields) |->
                         <<fields[j], TwoDigits(day(i)) \o "." \o DigitStr[j]>>]>>]])

\* entry counts of a response: none, one, and the most a response holds,
\* which is past the cap
ResponseSizes == {0, 1, MaxEntries}

\* what an indicator operation answers with: text, a mapping without items,
\* or a mapping with items
IndicatorPayloads ==
    [ind \in DOMAIN FetchOp |->
        {PyStr("time,value\n"), PyDict([Information |-> "rate limit"])}
        \cup {ItemsResponse(ind, n, v) : n \in ResponseSizes, v \in ResponseVariants}]

\* entry of a pack up to its first await
PackCall(pack) ==
    /\ pc = "idle"
    /\ \E a \in PackArgs :
        /\ handler' = pack
        /\ args' = a
        /\ calls' = Append(calls, PackCallOf(pack, a, 1))
        /\ pc' = "awaiting"
    /\ UNCHANGED <<responses, result, error>>

\* an awaited call answers and the pack awaits the next indicator
PackFetchNext(pack) ==
    /\ pc = "awaiting"
    /\ handler = pack
    /\ Len(responses) + 1 < Len(PackIndicators(pack))
    /\ \E payload \in IndicatorPayloads[PackIndicators(pack)[Len(responses) + 1]] :
        responses' = Append(responses, payload)
    /\ calls' = Append(calls, PackCallOf(pack, args, Len(calls) + 1))
    /\ UNCHANGED <<pc, handler, args, result, error>>

\* the last awaited call answers; the pack transforms and returns
PackReturn(pack) ==
    /\ pc = "awaiting"
    /\ handler = pack
    /\ Len(responses) + 1 = Len(PackIndicators(pack))
    /\ \E payload \in IndicatorPayloads[PackIndicators(pack)[Len(responses) + 1]] :
        /\ responses' = Append(responses, payload)
        /\ result' = Some(PackResult(pack, args, Append(responses, payload)))
    /\ pc' = "returned"
    /\ UNCHANGED <<handler, args, calls, error>>

\* the packs share one body; each action below is that body for one pack
NextPacks ==
    \E pack \in PackNames : PackCall(pack) \/ PackFetchNext(pack) \/ PackReturn(pack)

SpecPacks == Init /\ [][NextPacks]_vars

---------------------------------------------------------------------------
(* The tabular decoders: csv_to_list in get_market_calendar and            *)
(* csv_to_listings in get_listing_status                                   *)

MaxLines == 2
MaxIpoLines == 1

Whitespace == {" ", "\t", "\n", "\r"}

RECURSIVE LStrip(_)
LStrip(s) == IF s # <<>> /\ Head(s) \in Whitespace THEN LStrip(Tail(s)) ELSE s

RECURSIVE RStrip(_)
RStrip(s) ==
    IF s # <<>> /\ s[Len(s)] \in Whitespace THEN RStrip(SubSeq(s, 1, Len(s) - 1)) ELSE s

\* str.strip()
Strip(s) == RStrip(LStrip(s))

\* str.rstrip("\r")
RECURSIVE RStripCR(_)
RStripCR(s) ==
    IF s # <<>> /\ s[Len(s)] = "\r" THEN RStripCR(SubSeq(s, 1, Len(s) - 1)) ELSE s

\* str.split(sep): the pieces between the separators, [""] for empty text
RECURSIVE Split(_, _)
Split(s, sep) ==
    IF \A i \in 1..Len(s) : s[i] # sep THEN <<s>>
    ELSE LET i == CHOOSE k \in 1..Len(s) :
                     s[k] = sep /\ \A j \in 1..(k - 1) : s[j] # sep
         IN <<SubSeq(s, 1, i - 1)>> \o Split(SubSeq(s, i + 1, Len(s)), sep)

\* [val.strip().rstrip("\r") for val in line.split(",")]
LineValues(line) ==
    LET parts == Split(line, ",")
    IN [i \in 1..Len(parts) |-> RStripCR(Strip(parts[i]))]

earnings_headers ==
    <<"symbol", "name", "report_date", "fiscal_date_ending", "estimate", "currency">>

ipo_headers ==
    <<"symbol", "name", "ipo_date", "price_range_low", "price_range_high",
      "currency", "exchange">>

listing_keys ==
    <<"symbol", "name", "exchange", "asset_type", "ipo_date", "delisting_date", "status">>

\* item[header] = values[i] for i, header in enumerate(headers)
RowRecord(headers, values) ==
    [h \in {headers[i] : i \in 1..Len(headers)} |->
        values[CHOOSE i \in 1..Len(headers) : headers[i] = h]]

\* "if len(values) == len(headers)"
ListAccepts(values, headers) == Len(values) = Len(headers)

\* "if len(values) >= 7"
ListingAccepts(values) == Len(values) >= 7

\* the loop of csv_to_list over lines[1:]
RECURSIVE ListRows(_, _)
ListRows(lines, headers) ==
    IF lines = <<>> THEN <<>>
    ELSE (IF ListAccepts(LineValues(Head(lines)), headers)
          THEN <<RowRecord(headers, LineValues(Head(lines)))>> ELSE <<>>)
         \o ListRows(Tail(lines), headers)

\* a decoder that takes the header line for a data line
csv_to_list_keeps_header(csv_data, headers) ==
    LET lines == Split(Strip(csv_data), "\n")
    IN IF Len(lines) <= 1 THEN <<>> ELSE ListRows(lines, headers)

csv_to_list(csv_data, headers) ==
    LET lines == Split(Strip(csv_data), "\n")
    IN IF Len(lines) <= 1 THEN <<>> ELSE ListRows(Tail(lines), headers)

\* the loop of csv_to_listings over lines[1:]
RECURSIVE ListingRows(_)
ListingRows(lines) ==
    IF lines = <<>> THEN <<>>
    ELSE (IF ListingAccepts(LineValues(Head(lines)))
          THEN <<RowRecord(listing_keys, LineValues(Head(lines)))>> ELSE <<>>)
         \o ListingRows(Tail(lines))

csv_to_listings(csv_data) ==
    LET lines == Split(Strip(csv_data), "\n")
    IN IF Len(lines) <= 1 THEN <<>> ELSE ListingRows(Tail(lines))

\* a test that takes the empty string for a value
TruthyNotNone(opt) == opt # None

\* "if date:" and "if symbol:": None and the empty string are falsy
Truthy(opt) == opt # None /\ opt[1] # ""

MarketCalendarResult(a, earnings_csv, ipo_csv) ==
    LET base == [horizon |-> a.horizon, with_ipos |-> a.with_ipos,
                 earnings |-> csv_to_list(earnings_csv, earnings_headers),
                 ipos |-> IF a.with_ipos THEN csv_to_list(ipo_csv, ipo_headers) ELSE <<>>]
    IN PyDict(IF Truthy(a.symbol) THEN DictSet(base, "symbol", a.symbol[1]) ELSE base)

ListingStatusResult(a, csv_data) ==
    LET base == [state |-> a.state, listings |-> csv_to_listings(csv_data)]
    IN PyDict(IF Truthy(a.date) THEN DictSet(base, "date", a.date[1]) ELSE base)

(* The delimited text the Data Source answers with.  A text is described  *)
(* by the kinds of its data lines, its line ending and whether it ends in *)
(* a newline; CsvText renders the description.                            *)

ListingHeaderLine ==
    <<"s", "y", "m", "b", "o", "l", ",", "n", "a", "m", "e", ",", "e", "x",
      "c", "h", "a", "n", "g", "e", ",", "a", "s", "s", "e", "t", "T", "y",
      "p", "e", ",", "i", "p", "o", "D", "a", "t", "e", ",", "d", "e", "l",
      "i", "s", "t", "i", "n", "g", "D", "a", "t", "e", ",", "s", "t", "a",
      "t", "u", "s">>

EarningsHeaderLine ==
    <<"s", "y", "m", "b", "o", "l", ",", "n", "a", "m", "e", ",", "r", "e",
      "p", "o", "r", "t", "D", "a", "t", "e", ",", "f", "i", "s", "c", "a",
      "l", "D", "a", "t", "e", "E", "n", "d", "i", "n", "g", ",", "e", "s",
      "t", "i", "m", "a", "t", "e", ",", "c", "u", "r", "r", "e", "n", "c",
      "y">>

IpoHeaderLine ==
    <<"s", "y", "m", "b", "o", "l", ",", "n", "a", "m", "e", ",", "i", "p",
      "o", "D", "a", "t", "e", ",", "p", "r", "i", "c", "e", "R", "a", "n",
      "g", "e", "L", "o", "w", ",", "p", "r", "i", "c", "e", "R", "a", "n",
      "g", "e", "H", "i", "g", "h", ",", "c", "u", "r", "r", "e", "n", "c",
      "y", ",", "e", "x", "c", "h", "a", "n", "g", "e">>

LineKinds == {"plain", "padded", "short", "long"}

\* the fields of a data line of each kind, for a table of ncols columns, as
\* sent (raw) and with the surrounding blanks taken off (clean)
ColumnLetters == <<"a", "b", "c", "d", "e", "f", "g", "h", "i">>
PaddedLetters == <<"p", "q", "r", "s", "t", "u", "v", "w", "x">>

FieldCount(kind, ncols) ==
    CASE kind = "short" -> ncols - 1
      [] kind = "long" -> ncols + 1
      [] OTHER -> ncols

CleanFields(kind, ncols) ==
    [j \in 1..FieldCount(kind, ncols) |->
        IF kind = "padded"
        THEN (IF j = ncols - 1 THEN <<>> ELSE <<PaddedLetters[j]>>)
        ELSE <<ColumnLetters[j], "1">>]

RawFields(kind, ncols) ==
    [j \in 1..FieldCount(kind, ncols) |->
        IF kind = "padded" /\ j = 1 THEN <<" ">> \o CleanFields(kind, ncols)[j]
        ELSE IF kind = "padded" /\ j = 2 THEN CleanFields(kind, ncols)[j] \o <<" ", " ">>
        ELSE CleanFields(kind, ncols)[j]]

RECURSIVE Join(_, _)
Join(pieces, sep) ==
    IF pieces = <<>> THEN <<>>
    ELSE IF Len(pieces) = 1 THEN pieces[1]
    ELSE pieces[1] \o sep \o Join(Tail(pieces), sep)

CsvText(header, ncols, d) ==
    LET eol == IF d.crlf THEN <<"\r", "\n">> ELSE <<"\n">>
        lines == <<header>> \o [i \in 1..Len(d.kinds) |->
                                   Join(RawFields(d.kinds[i], ncols), <<",">>)]
    IN Join(lines, eol) \o (IF d.trailing THEN eol ELSE <<>>)

CsvDescriptions(maxLines) ==
    [kinds : SeqsUpTo(LineKinds, maxLines), crlf : BOOLEAN, trailing : BOOLEAN]

ListingTexts ==
    {<<>>} \cup {CsvText(ListingHeaderLine, 7, d) : d \in CsvDescriptions(MaxLines)}

EarningsTexts ==
    {<<>>} \cup {CsvText(EarningsHeaderLine, 6, d) : d \in CsvDescriptions(MaxLines)}

IpoTexts ==
    {CsvText(IpoHeaderLine, 7, d) :
        d \in {x \in CsvDescriptions(MaxIpoLines) : ~x.crlf /\ x.trailing}}

ListingStatusArgs ==
    [date : {None, Some(""), Some("2024-01-02")}, state : {"active", "delisted"}]

MarketCalendarArgs ==
    [symbol : {None, Some("IBM")}, horizon : {"3month"}, with_ipos : BOOLEAN]

\* entry of get_listing_status up to its await
GetListingStatusCall ==
    /\ pc = "idle"
    /\ \E a \in ListingStatusArgs :
        /\ handler' = "get_listing_status"
        /\ args' = a
        /\ calls' = Append(calls, Call("fetch_listing_status",
                                       [date |-> a.date, state |-> a.state]))
        /\ pc' = "awaiting"
    /\ UNCHANGED <<responses, result, error>>

\* the text arrives; decode and return
GetListingStatusReturn ==
    /\ pc = "awaiting"
    /\ handler = "get_listing_status"
    /\ \E text \in ListingTexts :
        /\ responses' = Append(responses, PyStr(text))
        /\ result' = Some(ListingStatusResult(args, text))
    /\ pc' = "returned"
    /\ UNCHANGED <<handler, args, calls, error>>

\* entry of get_market_calendar up to its first await
GetMarketCalendarCall ==
    /\ pc = "idle"
    /\ \E a \in MarketCalendarArgs :
        /\ handler' = "get_market_calendar"
        /\ args' = a
        /\ calls' = Append(calls, Call("fetch_earnings_calendar",
                                       [symbol |-> a.symbol, horizon |-> a.horizon]))
        /\ pc' = "awaiting"
    /\ UNCHANGED <<responses, result, error>>

\* the earnings text arrives and with_ipos is false: return with ipos empty
GetMarketCalendarReturnEarnings ==
    /\ pc = "awaiting"
    /\ handler = "get_market_calendar"
    /\ responses = <<>>
    /\ ~args.with_ipos
    /\ \E text \in EarningsTexts :
        /\ responses' = Append(responses, PyStr(text))
        /\ result' = Some(MarketCalendarResult(args, text, <<>>))
    /\ pc' = "returned"
    /\ UNCHANGED <<handler, args, calls, error>>

\* the earnings text arrives and with_ipos is true: await the IPO calendar
GetMarketCalendarFetchIpos ==
    /\ pc = "awaiting"
    /\ handler = "get_market_calendar"
    /\ responses = <<>>
    /\ args.with_ipos
    /\ \E text \in EarningsTexts : responses' = Append(responses, PyStr(text))
    /\ calls' = Append(calls, Call("fetch_ipo_calendar", <<>>))
    /\ UNCHANGED <<pc, handler, args, result, error>>

\* the IPO text arrives; decode both and return
GetMarketCalendarReturn ==
    /\ pc = "awaiting"
    /\ handler = "get_market_calendar"
    /\ Len(responses) = 1
    /\ \E text \in IpoTexts :
        /\ responses' = Append(responses, PyStr(text))
        /\ result' = Some(MarketCalendarResult(args, responses[1].s, text))
    /\ pc' = "returned"
    /\ UNCHANGED <<handler, args, calls, error>>

NextTabular ==
    \/ GetListingStatusCall \/ GetListingStatusReturn
    \/ GetMarketCalendarCall \/ GetMarketCalendarReturnEarnings
    \/ GetMarketCalendarFetchIpos \/ GetMarketCalendarReturn

SpecTabular == Init /\ [][NextTabular]_vars

---------------------------------------------------------------------------
(* Claims on fetch_time_series *)

InTimeSeries == handler = "fetch_time_series" /\ pc # "idle"

\* the operation the documented (interval, adjusted) table names
DocumentedOperation(interval, adjusted) ==
    CASE interval = "daily" /\ ~adjusted -> "fetch_time_series_daily"
      [] interval = "daily" /\ adjusted -> "fetch_time_series_daily_adjusted"
      [] interval = "weekly" /\ ~adjusted -> "fetch_time_series_weekly"
      [] interval = "weekly" /\ adjusted -> "fetch_time_series_weekly_adjusted"
      [] interval = "monthly" /\ ~adjusted -> "fetch_time_series_monthly"
      [] interval = "monthly" /\ adjusted -> "fetch_time_series_monthly_adjusted"

C2_IntradayRoute ==
    (InTimeSeries /\ args.interval \in {"1min", "5min", "15min", "30min", "60min"}) =>
        /\ pc \in {"awaiting", "returned"}
        /\ Len(calls) = 1
        /\ \A i \in 1..Len(calls) : calls[i].op = "fetch_intraday"

C2_Witness ==
    /\ InTimeSeries /\ pc = "returned"
    /\ args.interval = "60min" /\ args.adjusted
    /\ calls = <<Call("fetch_intraday",
                      [symbol |-> args.symbol, interval |-> "60min", datatype |-> "json",
                       adjusted |-> TRUE, extended_hours |-> args.extended_hours,
                       outputsize |-> args.outputsize, month |-> args.month])>>

---------------------------------------------------------------------------
(* analyze_stocks: the analytics router *)

MaxSymbols == 2
MaxCalcs == 2
MaxWindow == 12

Calculations == {"MEAN", "STDDEV"}

\* window_size >= 10 selects the sliding window
SlidingThreshold == 10

UseSlidingAbove(window_size) ==
    window_size # None /\ window_size[1] > SlidingThreshold

UseSliding(window_size) ==
    window_size # None /\ window_size[1] >= SlidingThreshold

\* the placeholder record of one (symbol, calculation) pair; value is 0.0
PlaceholderRecord(symbol, calc) ==
    [symbol |-> symbol, calculation |-> calc, value |-> 0, date |-> "2024-01-01"]

\* for calc in calculations: result["results"].append(...)
RECURSIVE PlaceholdersOfSymbol(_, _)
PlaceholdersOfSymbol(symbol, calculations) ==
    IF calculations = <<>> THEN <<>>
    ELSE <<PlaceholderRecord(symbol, Head(calculations))>>
         \o PlaceholdersOfSymbol(symbol, Tail(calculations))

RECURSIVE PlaceholdersCalcMajor(_, _)
PlaceholdersCalcMajor(symbols, calculations) ==
    IF calculations = <<>> THEN <<>>
    ELSE [i \in 1..Len(symbols) |-> PlaceholderRecord(symbols[i], Head(calculations))]
         \o PlaceholdersCalcMajor(symbols, Tail(calculations))

\* for symbol in symbols: for calc in calculations: ...
RECURSIVE Placeholders(_, _)
Placeholders(symbols, calculations) ==
    IF symbols = <<>> THEN <<>>
    ELSE PlaceholdersOfSymbol(Head(symbols), calculations)
         \o Placeholders(Tail(symbols), calculations)

AnalyzeRoute(a) ==
    IF UseSliding(a.window_size)
    THEN Call("fetch_analytics_sliding_window",
              [symbols |-> a.symbols, interval |-> a.interval,
               calculations |-> a.calculations, series_range |-> a.series_range,
               ohlc |-> a.ohlc, window_size |-> a.window_size[1]])
    ELSE Call("fetch_analytics_fixed_window",
              [symbols |-> a.symbols, interval |-> a.interval,
               calculations |-> a.calculations, series_range |-> a.series_range,
               ohlc |-> a.ohlc])

\* a request echo that leaves calculations out
AnalyzeMetadataNoCalcs(a, sliding) ==
    [interval |-> a.interval, series_range |-> a.series_range, ohlc |-> a.ohlc,
     window_size |-> IF sliding THEN a.window_size ELSE None]

\* the request echo written into result["metadata"]
AnalyzeMetadata(a, sliding) ==
    [interval |-> a.interval, series_range |-> a.series_range, ohlc |-> a.ohlc,
     window_size |-> IF sliding THEN a.window_size ELSE None,
     calculations |-> a.calculations]

\* what analyze_stocks does to the payload after its await, on either path
AnalyzeBackfill(a, payload, sliding) ==
    IF ~IsDict(payload) THEN payload
    ELSE LET r1 == DictSet(DictSet(payload.d,
                       "window_type", IF sliding THEN "sliding" ELSE "fixed"),
                       "symbols", a.symbols)
             r2 == IF ~sliding /\ "data_format" \notin DOMAIN r1
                   THEN DictSet(r1, "data_format", "json") ELSE r1
             r3 == IF "results" \notin DOMAIN r2
                   THEN DictSet(r2, "results", Placeholders(a.symbols, a.calculations))
                   ELSE r2
             r4 == IF "metadata" \notin DOMAIN r3
                   THEN DictSet(r3, "metadata", <<>>) ELSE r3
         IN PyDict(DictSet(r4, "metadata",
                           DictUpdate(r4["metadata"], AnalyzeMetadata(a, sliding))))

AnalyzeArgs ==
    [symbols : SeqsUpTo(Symbols, MaxSymbols), interval : {"DAILY"},
     calculations : SeqsUpTo(Calculations, MaxCalcs), series_range : {"1month"},
     ohlc : {"close", "open"},
     window_size : {None} \cup {Some(w) : w \in (0 - 1)..MaxWindow}]

UpstreamResult == [symbol |-> "IBM", calculation |-> "MEAN", value |-> 7, date |-> "2024-06-03"]

\* payloads the analytics operations answer with: a mapping with or without
\* results, metadata and data_format, or text
AnalyzePayloads ==
    {PyStr("symbol,calculation,value\n")}
    \cup {PyDict(res @@ meta @@ fmt) :
            res \in {<<>>, [results |-> <<>>], [results |-> <<UpstreamResult>>]},
            meta \in {<<>>, [metadata |-> <<>>],
                      [metadata |-> [interval |-> "stale", source |-> "upstream"]]},
            fmt \in {<<>>, [data_format |-> "csv"]}}

\* entry of analyze_stocks up to its await
AnalyzeStocksCall ==
    /\ pc = "idle"
    /\ \E a \in AnalyzeArgs :
        /\ handler' = "analyze_stocks"
        /\ args' = a
        /\ calls' = Append(calls, AnalyzeRoute(a))
        /\ pc' = "awaiting"
    /\ UNCHANGED <<responses, result, error>>

\* the awaited call answers; backfill and return
AnalyzeStocksReturn ==
    /\ pc = "awaiting"
    /\ handler = "analyze_stocks"
    /\ \E payload \in AnalyzePayloads :
        /\ responses' = Append(responses, payload)
        /\ result' = Some(AnalyzeBackfill(args, payload, UseSliding(args.window_size)))
        /\ pc' = "returned"
    /\ UNCHANGED <<handler, args, calls, error>>

NextAnalyze == AnalyzeStocksCall \/ AnalyzeStocksReturn

SpecAnalyze == Init /\ [][NextAnalyze]_vars

---------------------------------------------------------------------------
(* Claims on analyze_stocks *)

InAnalyze == handler = "analyze_stocks" /\ pc # "idle"

AnalyzeReturned == handler = "analyze_stocks" /\ pc = "returned"

\* window_size is present and numerically at least 10
WindowAtLeastTen == args.window_size # None /\ args.window_size[1] >= 10

ExpectedWindowType == IF WindowAtLeastTen THEN "sliding" ELSE "fixed"

ExpectedAnalyticsOp ==
    IF WindowAtLeastTen THEN "fetch_analytics_sliding_window"
    ELSE "fetch_analytics_fixed_window"

C3_OneRoutedCall ==
    InAnalyze => (Len(calls) = 1 /\ calls[1].op = ExpectedAnalyticsOp)

MetadataEchoes(md, window_size) ==
    /\ {"interval", "series_range", "ohlc", "window_size", "calculations"} \subseteq DOMAIN md
    /\ md["interval"] = args.interval
    /\ md["series_range"] = args.series_range
    /\ md["ohlc"] = args.ohlc
    /\ md["calculations"] = args.calculations
    /\ md["window_size"] = window_size

C5_PlaceholderResults ==
    (AnalyzeReturned /\ IsDict(responses[1])) =>
        LET got == result[1].d["results"]
            ns == Len(args.symbols)
            nc == Len(args.calculations)
        IN IF "results" \in DOMAIN responses[1].d
           THEN got = responses[1].d["results"]
           ELSE /\ Len(got) = ns * nc
                /\ \A i \in 1..ns : \A j \in 1..nc :
                      got[(i - 1) * nc + j] =
                          [symbol |-> args.symbols[i],
                           calculation |-> args.calculations[j],
                           value |-> 0, date |-> "2024-01-01"]

C5_Witness ==
    /\ AnalyzeReturned
    /\ IsDict(responses[1])
    /\ "results" \notin DOMAIN responses[1].d
    /\ args.symbols = <<"IBM", "AAPL">>
    /\ args.calculations = <<"MEAN", "STDDEV">>
    /\ args.window_size = Some(12)
    /\ Len(result[1].d["results"]) = 4
    /\ result[1].d["results"][2].calculation = "STDDEV"
    /\ result[1].d["results"][2].symbol = "IBM"

---------------------------------------------------------------------------
(* Claims on the indicator packs *)

PackReturned == handler \in PackNames /\ pc = "returned"

\* the returned items of the i-th indicator of the pack, in emitted order
ItemsOfIndicator(i) ==
    SelectSeq(result[1].d["items"],
              LAMBDA it : it.indicator = Lower(PackIndicators(handler)[i]))

HasItems(i) == IsDict(responses[i]) /\ "items" \in DOMAIN responses[i].d

Min(a, b) == IF a <= b THEN a ELSE b

\* the timestamps of entries k..kept, each repeated once per field it carries
RECURSIVE StampPerField(_, _, _)
StampPerField(entries, k, kept) ==
    IF k > kept THEN <<>>
    ELSE [j \in 1..Len(entries[k][2]) |->
             normalize_timestamp(entries[k][1], args.interval)]
         \o StampPerField(entries, k + 1, kept)

\* C6: in each pack, for every indicator and every response size, the
\* emitted items of the indicator cover at most 20 distinct timestamps, and
\* they are the items of the first 20 entries of the response (of all its
\* entries when it has fewer), in the order of the response.
C6_CapFirstTwenty ==
    PackReturned =>
        \A i \in 1..Len(PackIndicators(handler)) :
            LET its == ItemsOfIndicator(i)
            IN IF ~HasItems(i) THEN its = <<>>
               ELSE LET entries == responses[i].d["items"]
                    IN /\ Cardinality({its[p].timestamp : p \in 1..Len(its)}) <= 20
                       /\ [p \in 1..Len(its) |-> its[p].timestamp]
                             = StampPerField(entries, 1, Min(20, Len(entries)))

C6_Witness ==
    /\ PackReturned
    /\ handler = "get_volume_indicators"
    /\ HasItems(3)
    /\ Len(responses[3].d["items"]) = 21
    /\ responses[3].d["items"][1][1] = "2024-01-21 09:30:00"
    /\ Len(ItemsOfIndicator(3)) = 40
    /\ ItemsOfIndicator(3)[1].timestamp = "2024-01-21 09:30:00"
    /\ ItemsOfIndicator(3)[40].timestamp = "2024-01-02 09:30:00"

MacdComponent(field) ==
    CASE field = "MACD" -> "macd"
      [] field = "MACD_Signal" -> "macd_signal"
      [] field = "MACD_Hist" -> "macd_hist"
      [] OTHER -> "?"

\* C7: in get_trend_indicators a MACD response with 3 component fields per
\* timestamp and T = min(20, entries) retained timestamps yields exactly 3*T
\* items with indicator "macd", one per component per retained timestamp,
\* its component the lower-cased field name.
C7_MacdExpansion ==
    (PackReturned /\ handler = "get_trend_indicators" /\ HasItems(4)
       /\ \A k \in 1..Len(responses[4].d["items"]) :
             Len(responses[4].d["items"][k][2]) = 3) =>
        LET entries == responses[4].d["items"]
            T == Min(20, Len(entries))
            macd == SelectSeq(result[1].d["items"], LAMBDA it : it.indicator = "macd")
        IN /\ Len(macd) = 3 * T
           /\ \A k \in 1..T : \A j \in 1..3 :
                 /\ macd[3 * (k - 1) + j].timestamp
                       = normalize_timestamp(entries[k][1], args.interval)
                 /\ macd[3 * (k - 1) + j].component = MacdComponent(entries[k][2][j][1])
                 /\ macd[3 * (k - 1) + j].value = entries[k][2][j][2]

C7_Witness ==
    /\ PackReturned /\ handler = "get_trend_indicators" /\ HasItems(4)
    /\ Len(responses[4].d["items"]) = 21
    /\ Len(responses[4].d["items"][1][2]) = 3
    /\ Len(SelectSeq(result[1].d["items"], LAMBDA it : it.indicator = "macd")) = 60
    /\ \E p \in 1..Len(result[1].d["items"]) :
          /\ result[1].d["items"][p].component = "macd_hist"
          /\ result[1].d["items"][p].timestamp = "2024-01-20 00:00:00"

\* C8 as stated: in the items of any pack no two items of the same indicator
\* share both their timestamp and their component.
C8_OneRowPerPair ==
    PackReturned =>
        LET its == result[1].d["items"]
        IN \A p \in 1..Len(its) : \A q \in (p + 1)..Len(its) :
              ~(/\ its[p].indicator = its[q].indicator
                /\ its[p].timestamp = its[q].timestamp
                /\ its[p].component = its[q].component)

---------------------------------------------------------------------------
(* Claims on the tabular decoders *)

ListingReturned == handler = "get_listing_status" /\ pc = "returned"

CalendarReturned == handler = "get_market_calendar" /\ pc = "returned"

\* the texts of each table with their descriptions
ListingTable ==
    {<<CsvText(ListingHeaderLine, 7, d), d>> : d \in CsvDescriptions(MaxLines)}

EarningsTable ==
    {<<CsvText(EarningsHeaderLine, 6, d), d>> : d \in CsvDescriptions(MaxLines)}

IpoTable ==
    {<<CsvText(IpoHeaderLine, 7, d), d>> : d \in CsvDescriptions(MaxIpoLines)}

ListingOf(f) ==
    [symbol |-> f[1], name |-> f[2], exchange |-> f[3], asset_type |-> f[4],
     ipo_date |-> f[5], delisting_date |-> f[6], status |-> f[7]]

EarningOf(f) ==
    [symbol |-> f[1], name |-> f[2], report_date |-> f[3],
     fiscal_date_ending |-> f[4], estimate |-> f[5], currency |-> f[6]]

IpoOf(f) ==
    [symbol |-> f[1], name |-> f[2], ipo_date |-> f[3], price_range_low |-> f[4],
     price_range_high |-> f[5], currency |-> f[6], exchange |-> f[7]]

\* every data line of the description has the table's field count
WellFormed(d) == \A i \in 1..Len(d.kinds) : d.kinds[i] \in {"plain", "padded"}

\* the data lines of the description that have ncols fields, in line order
MatchingKinds(d) == SelectSeq(d.kinds, LAMBDA k : k \in {"plain", "padded"})

\* C9: empty text and text with only a header line decode to the empty
\* sequence; a header line followed by N data lines of the decoder's field
\* count decodes to exactly N records in line order, the i-th holding the
\* fields of the i-th data line (surrounding blanks and carriage returns
\* taken off).
C9_WellFormedDecoding ==
    /\ ListingReturned =>
          /\ responses[1].s = <<>> => result[1].d["listings"] = <<>>
          /\ \A t \in ListingTable :
                (t[1] = responses[1].s /\ WellFormed(t[2])) =>
                    result[1].d["listings"] =
                        [i \in 1..Len(t[2].kinds) |->
                            ListingOf(CleanFields(t[2].kinds[i], 7))]
    /\ CalendarReturned =>
          /\ responses[1].s = <<>> => result[1].d["earnings"] = <<>>
          /\ \A t \in EarningsTable :
                (t[1] = responses[1].s /\ WellFormed(t[2])) =>
                    result[1].d["earnings"] =
                        [i \in 1..Len(t[2].kinds) |->
                            EarningOf(CleanFields(t[2].kinds[i], 6))]
          /\ args.with_ipos =>
                \A t \in IpoTable :
                    (t[1] = responses[2].s /\ WellFormed(t[2])) =>
                        result[1].d["ipos"] =
                            [i \in 1..Len(t[2].kinds) |->
                                IpoOf(CleanFields(t[2].kinds[i], 7))]

C9_Witness ==
    /\ ListingReturned
    /\ responses[1].s =
          CsvText(ListingHeaderLine, 7,
                  [kinds |-> <<"padded", "plain">>, crlf |-> TRUE, trailing |-> TRUE])
    /\ Len(result[1].d["listings"]) = 2
    /\ result[1].d["listings"][1] =
          [symbol |-> <<"p">>, name |-> <<"q">>, exchange |-> <<"r">>,
           asset_type |-> <<"s">>, ipo_date |-> <<"t">>, delisting_date |-> <<>>,
           status |-> <<"v">>]
    /\ result[1].d["listings"][2].status = <<"g", "1">>

\* C10 as stated: in both decoders every data line whose field count differs
\* from the header's, fewer or more, is left out, and the other lines are
\* decoded as if it were not there.
C10_MismatchedLinesDropped ==
    /\ ListingReturned =>
          \A t \in ListingTable :
              t[1] = responses[1].s =>
                  result[1].d["listings"] =
                      [i \in 1..Len(MatchingKinds(t[2])) |->
                          ListingOf(CleanFields(MatchingKinds(t[2])[i], 7))]
    /\ CalendarReturned =>
          \A t \in EarningsTable :
              t[1] = responses[1].s =>
                  result[1].d["earnings"] =
                      [i \in 1..Len(MatchingKinds(t[2])) |->
                          EarningOf(CleanFields(MatchingKinds(t[2])[i], 6))]

\* the data lines of the description the listing decoder keeps, in line order
KeptListingKinds(d) == SelectSeq(d.kinds, LAMBDA k : FieldCount(k, 7) >= 7)

\* the listings of the text get_listing_status was answered with: one record
\* per kept data line, the seven fields in column order
ListingsAsDecoded ==
    /\ responses[1].s = <<>> => result[1].d["listings"] = <<>>
    /\ \A t \in ListingTable :
          t[1] = responses[1].s =>
              result[1].d["listings"] =
                  [i \in 1..Len(KeptListingKinds(t[2])) |->
                      ListingOf(SubSeq(CleanFields(KeptListingKinds(t[2])[i], 7), 1, 7))]

\* C13 as stated: the result holds the requested state and the decoded
\* listings, and a date field if and only if a date was passed, equal to it.
C13_Original ==
    ListingReturned =>
        /\ result[1].d["state"] = args.state
        /\ ListingsAsDecoded
        /\ ("date" \in DOMAIN result[1].d) <=> (args.date # None)
        /\ args.date # None => result[1].d["date"] = args.date[1]

\* C13: get_listing_status returns a mapping with state equal to the
\* requested state and listings holding one record per decoded data line, the
\* seven fields in column order and an empty column kept as the empty string;
\* the result has a date field if and only if a non-empty date was passed,
\* and then it equals that date.
C13_ListingStatus ==
    ListingReturned =>
        /\ DOMAIN result[1].d \subseteq {"state", "listings", "date"}
        /\ result[1].d["state"] = args.state
        /\ ListingsAsDecoded
        /\ ("date" \in DOMAIN result[1].d) <=> (args.date # None /\ args.date[1] # "")
        /\ "date" \in DOMAIN result[1].d => result[1].d["date"] = args.date[1]

C13_Witness ==
    /\ ListingReturned
    /\ args = [date |-> Some("2024-01-02"), state |-> "delisted"]
    /\ responses[1].s =
          CsvText(ListingHeaderLine, 7,
                  [kinds |-> <<"padded">>, crlf |-> FALSE, trailing |-> TRUE])
    /\ result[1].d =
          [state |-> "delisted", date |-> "2024-01-02",
           listings |-> <<[symbol |-> <<"p">>, name |-> <<"q">>, exchange |-> <<"r">>,
                           asset_type |-> <<"s">>, ipo_date |-> <<"t">>,
                           delisting_date |-> <<>>, status |-> <<"v">>]>>]

---------------------------------------------------------------------------
(* Python values of the key normalizers.  Every value is tagged with its   *)
(* type; a dict is PyDict of the sequence of its <<key, value>> pairs in   *)
(* insertion order, with no key twice.                                     *)

PyNone == [type |-> "NoneType"]
PyList(l) == [type |-> "list", l |-> l]
PyInt(n) == [type |-> "int", n |-> n]
PyBool(b) == [type |-> "bool", b |-> b]

EmptyDict == PyDict(<<>>)

\* key in d
In(key, d) == \E i \in 1..Len(d.d) : d.d[i][1] = key

\* d.get(key, default)
GetOr(d, key, default) ==
    IF In(key, d) THEN d.d[CHOOSE i \in 1..Len(d.d) : d.d[i][1] = key][2] ELSE default

\* d.get(key)
Get(d, key) == GetOr(d, key, PyNone)

\* d[key] = value: a key already there keeps its place
Put(d, key, value) ==
    IF In(key, d)
    THEN PyDict([i \in 1..Len(d.d) |-> IF d.d[i][1] = key THEN <<key, value>> ELSE d.d[i]])
    ELSE PyDict(Append(d.d, <<key, value>>))

\* d.update(other)
RECURSIVE Update(_, _)
Update(d, other) ==
    IF other.d = <<>> THEN d
    ELSE Update(Put(d, Head(other.d)[1], Head(other.d)[2]), PyDict(Tail(other.d)))

\* {k: v for k, v in d.items() if v is not None}
DropNone(d) == PyDict(SelectSeq(d.d, LAMBDA kv : kv[2] # PyNone))

\* bool(x) of a str or None
IsTruthy(x) == x # PyNone /\ x # PyStr("")

\* x or y
Or(x, y) == IF IsTruthy(x) THEN x ELSE y

\* for old_key, new_key in mappings.items(): if old_key in d: out[new_key] = d[old_key]
RECURSIVE MapPresent(_, _)
MapPresent(mappings, d) ==
    IF mappings = <<>> THEN EmptyDict
    ELSE LET rest == MapPresent(Tail(mappings), d)
             old_key == Head(mappings)[1]
             new_key == Head(mappings)[2]
         IN IF In(old_key, d)
            THEN PyDict(<<<<new_key, d.d[CHOOSE i \in 1..Len(d.d) : d.d[i][1] = old_key][2]>>>>
                        \o rest.d)
            ELSE rest

\* {new_key: d.get(old_key) for old_key, new_key in mappings}
MapGet(mappings, d) ==
    PyDict([i \in 1..Len(mappings) |-> <<mappings[i][2], Get(d, mappings[i][1])>>])

\* sub in s, for strings
Contains(s, sub) ==
    \E i \in 1..(Len(s) - Len(sub) + 1) : SubSeq(s, i, i + Len(sub) - 1) = sub

\* s.startswith(prefix)
StartsWith(s, prefix) == Len(s) >= Len(prefix) /\ SubSeq(s, 1, Len(prefix)) = prefix

UpperCase == "ABCDEFGHIJKLMNOPQRSTUVWXYZ"
LowerCase == "abcdefghijklmnopqrstuvwxyz"

IsUpper(c) == Contains(UpperCase, c)
IsLower(c) == Contains(LowerCase, c)
IsDigit(c) == Contains("0123456789", c)

\* s.lower()
RECURSIVE StrLower(_)
StrLower(s) ==
    IF s = "" THEN ""
    ELSE LET c == SubSeq(s, 1, 1)
         IN (IF IsUpper(c)
             THEN LET i == CHOOSE j \in 1..26 : SubSeq(UpperCase, j, j) = c
                  IN SubSeq(LowerCase, i, i)
             ELSE c) \o StrLower(SubSeq(s, 2, Len(s)))

\* s < t in the order of str (both of digits, letters and punctuation below)
CharOrder == " -.0123456789:ABCDEFGHIJKLMNOPQRSTUVWXYZ_abcdefghijklmnopqrstuvwxyz"

CharRank(c) == CHOOSE j \in 1..Len(CharOrder) : SubSeq(CharOrder, j, j) = c

RECURSIVE StrLess(_, _)
StrLess(s, t) ==
    IF t = "" THEN FALSE
    ELSE IF s = "" THEN TRUE
    ELSE IF SubSeq(s, 1, 1) = SubSeq(t, 1, 1)
    THEN StrLess(SubSeq(s, 2, Len(s)), SubSeq(t, 2, Len(t)))
    ELSE CharRank(SubSeq(s, 1, 1)) < CharRank(SubSeq(t, 1, 1))

\* sorted(d.items()): the pairs in ascending order of key
RECURSIVE SortedItems(_)
SortedItems(items) ==
    IF items = <<>> THEN <<>>
    ELSE LET least == CHOOSE i \in 1..Len(items) :
                          \A j \in 1..Len(items) : j # i => StrLess(items[i][1], items[j][1])
         IN <<items[least]>>
            \o SortedItems([k \in 1..(Len(items) - 1) |->
                               IF k < least THEN items[k] ELSE items[k + 1]])

---------------------------------------------------------------------------
(* The key normalizers *)

\* the outcome of a handler's code after its last await
Returns(value) == [raised |-> FALSE, value |-> value]
Raises(err) == [raised |-> TRUE, error |-> err]

\* get_current_stock_quote: Global Quote key -> clean key
quote_keys ==
    <<<<"01. symbol", "symbol">>, <<"02. open", "open">>, <<"03. high", "high">>,
      <<"04. low", "low">>, <<"05. price", "price">>, <<"06. volume", "volume">>,
      <<"07. latest trading day", "latest_trading_day">>,
      <<"08. previous close", "previous_close">>, <<"09. change", "change">>,
      <<"10. change percent", "change_percent">>>>

current_stock_quote(raw_data) ==
    IF In("Global Quote", raw_data)
    THEN PyDict(<<<<"quote", MapGet(quote_keys, Get(raw_data, "Global Quote"))>>>>)
    ELSE raw_data

\* lookup_stock_symbol: bestMatches key -> clean key
match_keys ==
    <<<<"1. symbol", "symbol">>, <<"2. name", "name">>, <<"3. type", "type">>,
      <<"4. region", "region">>, <<"5. marketOpen", "market_open">>,
      <<"6. marketClose", "market_close">>, <<"7. timezone", "timezone">>,
      <<"8. currency", "currency">>, <<"9. matchScore", "match_score">>>>

stock_symbol_matches(keywords, raw_data) ==
    IF IsDict(raw_data) /\ In("bestMatches", raw_data)
    THEN LET matches == Get(raw_data, "bestMatches").l
             cleaned_matches ==
                 [i \in 1..Len(matches) |-> DropNone(MapGet(match_keys, matches[i]))]
         IN PyDict(<<<<"keywords", PyStr(keywords)>>,
                     <<"total_matches", PyInt(Len(cleaned_matches))>>,
                     <<"matches", PyList(cleaned_matches)>>>>)
    ELSE raw_data

\* get_corporate_actions: upstream field -> schema field
dividend_keys ==
    <<<<"ex_dividend_date", "ex_dividend_date">>, <<"amount", "dividend_amount">>,
      <<"record_date", "record_date">>, <<"payment_date", "payment_date">>,
      <<"declaration_date", "declaration_date">>>>

split_keys ==
    <<<<"effective_date", "date">>, <<"split_factor", "split_coefficient">>>>

corporate_actions(symbol, dividends_response, splits_response) ==
    LET dividends_data == GetOr(dividends_response, "data", PyList(<<>>)).l
        splits_data == GetOr(splits_response, "data", PyList(<<>>)).l
    IN PyDict(<<<<"symbol", PyStr(symbol)>>,
                <<"dividends", PyList([i \in 1..Len(dividends_data) |->
                                          MapGet(dividend_keys, dividends_data[i])])>>,
                <<"splits", PyList([i \in 1..Len(splits_data) |->
                                       MapGet(split_keys, splits_data[i])])>>>>)

\* key_mappings with the bid and ask prices crossed
fx_rate_key_mappings_crossed ==
    <<<<"1. From_Currency Code", "from_currency_code">>,
      <<"2. From_Currency Name", "from_currency_name">>,
      <<"3. To_Currency Code", "to_currency_code">>,
      <<"4. To_Currency Name", "to_currency_name">>,
      <<"5. Exchange Rate", "exchange_rate">>,
      <<"6. Last Refreshed", "last_refreshed">>,
      <<"7. Time Zone", "time_zone">>,
      <<"8. Bid Price", "ask_price">>,
      <<"9. Ask Price", "bid_price">>>>

\* get_current_fx_rate: key_mappings
fx_rate_key_mappings ==
    <<<<"1. From_Currency Code", "from_currency_code">>,
      <<"2. From_Currency Name", "from_currency_name">>,
      <<"3. To_Currency Code", "to_currency_code">>,
      <<"4. To_Currency Name", "to_currency_name">>,
      <<"5. Exchange Rate", "exchange_rate">>,
      <<"6. Last Refreshed", "last_refreshed">>,
      <<"7. Time Zone", "time_zone">>,
      <<"8. Bid Price", "bid_price">>,
      <<"9. Ask Price", "ask_price">>>>

normalize_fx_rate_keys(data) ==
    IF ~IsDict(data) THEN data
    ELSE IF In("Realtime Currency Exchange Rate", data)
    THEN MapPresent(fx_rate_key_mappings, Get(data, "Realtime Currency Exchange Rate"))
    ELSE data

\* the first key of data that the test accepts, None when there is none
FirstKey(pairs, Accepts(_)) ==
    LET hits == {i \in 1..Len(pairs) : Accepts(pairs[i][1])}
    IN IF hits = {} THEN None
       ELSE Some(pairs[CHOOSE i \in hits : \A j \in hits : i <= j][1])

\* the array in the order the block came in
items_array_unsorted(time_series) ==
    PyList([i \in 1..Len(time_series) |->
               Update(PyDict(<<<<"date", PyStr(time_series[i][1])>>>>), time_series[i][2])])

\* "Convert object to sorted array with date field"
items_array(time_series) ==
    LET sorted == SortedItems(time_series)
    IN PyList([i \in 1..Len(sorted) |->
                  Update(PyDict(<<<<"date", PyStr(sorted[i][1])>>>>), sorted[i][2])])

\* get_fx_time_series
fx_metadata_key_mappings ==
    <<<<"1. Information", "information">>, <<"2. From Symbol", "from_symbol">>,
      <<"3. To Symbol", "to_symbol">>, <<"4. Output Size", "output_size">>,
      <<"5. Last Refreshed", "last_refreshed">>, <<"6. Time Zone", "time_zone">>,
      <<"7. Interval", "interval">>>>

fx_value_key_mappings ==
    <<<<"1. open", "open">>, <<"2. high", "high">>, <<"3. low", "low">>,
      <<"4. close", "close">>>>

normalize_fx_series_keys(data) ==
    IF ~IsDict(data) THEN data
    ELSE LET with_metadata ==
                 IF In("Meta Data", data)
                 THEN PyDict(<<<<"metadata",
                                 DropNone(MapPresent(fx_metadata_key_mappings,
                                                     Get(data, "Meta Data")))>>>>)
                 ELSE EmptyDict
             time_series_key == FirstKey(data.d, LAMBDA key : StartsWith(key, "Time Series"))
         IN IF time_series_key # None /\ time_series_key[1] # ""
            THEN LET time_series_data == Get(data, time_series_key[1]).d
                     normalized_time_series ==
                         [i \in 1..Len(time_series_data) |->
                             <<time_series_data[i][1],
                               MapPresent(fx_value_key_mappings, time_series_data[i][2])>>]
                 IN Put(with_metadata, "items", items_array(normalized_time_series))
            ELSE with_metadata

\* a str holding the JSON text of a value, and json.loads of it
PyJson(v) == [type |-> "str", json |-> v]
json_loads(data_str) == data_str.json

\* a test that also refuses a block of a single date
no_dates_or_one(dates) == Len(dates) <= 1

\* "if not dates"
no_dates(dates) == dates = <<>>

\* get_current_crypto_quote
normalize_crypto_quote(symbol, market, data_str) ==
    LET data == json_loads(data_str)
        metadata == GetOr(data, "Meta Data", EmptyDict)
        time_series_key ==
            FirstKey(data.d, LAMBDA key : Contains(key, "Time Series")
                                          /\ Contains(key, "Digital Currency"))
    IN IF time_series_key = None \/ time_series_key[1] = ""
       THEN Raises(ValueError("Time series data not found in response"))
       ELSE LET time_series == Get(data, time_series_key[1]).d
                dates == SortedItems(time_series)
            IN IF no_dates(dates)
               THEN Raises(ValueError("No time series data available"))
               ELSE LET latest_date == dates[Len(dates)][1]
                        latest_data == dates[Len(dates)][2]
                        current_quote ==
                            PyDict(<<<<"date", PyStr(latest_date)>>,
                                     <<"open", GetOr(latest_data, "1. open", PyStr(""))>>,
                                     <<"high", GetOr(latest_data, "2. high", PyStr(""))>>,
                                     <<"low", GetOr(latest_data, "3. low", PyStr(""))>>,
                                     <<"close", GetOr(latest_data, "4. close", PyStr(""))>>,
                                     <<"volume", GetOr(latest_data, "5. volume", PyStr(""))>>>>)
                    IN Returns(PyDict(
                        <<<<"symbol", GetOr(metadata, "2. Digital Currency Code", PyStr(symbol))>>,
                          <<"name", GetOr(metadata, "3. Digital Currency Name", PyStr(""))>>,
                          <<"market", GetOr(metadata, "4. Market Code", PyStr(market))>>,
                          <<"market_name", GetOr(metadata, "5. Market Name", PyStr(""))>>,
                          <<"last_refreshed", GetOr(metadata, "6. Last Refreshed", PyStr(""))>>,
                          <<"time_zone", GetOr(metadata, "7. Time Zone", PyStr(""))>>,
                          <<"current_quote", current_quote>>>>))

\* get_crypto_time_series
crypto_metadata_key_mappings ==
    <<<<"1. Information", "information">>, <<"2. Digital Currency Code", "symbol">>,
      <<"3. Digital Currency Name", "name">>, <<"4. Market Code", "market">>,
      <<"5. Market Name", "market_name">>, <<"6. Last Refreshed", "last_refreshed">>,
      <<"7. Interval", "interval">>, <<"8. Output Size", "output_size">>,
      <<"9. Time Zone", "time_zone">>>>

crypto_value_key_mappings ==
    <<<<"1. open", "open">>, <<"2. high", "high">>, <<"3. low", "low">>,
      <<"4. close", "close">>, <<"5. volume", "volume">>>>

\* str(x) of a str or None
Str(x) == IF x = PyNone THEN PyStr("None") ELSE x

normalize_crypto_series(raw, is_from_string) ==
    LET data == IF is_from_string THEN json_loads(raw) ELSE raw
        with_metadata ==
            IF In("Meta Data", data)
            THEN PyDict(<<<<"metadata",
                            DropNone(MapPresent(crypto_metadata_key_mappings,
                                                Get(data, "Meta Data")))>>>>)
            ELSE EmptyDict
        time_series_key == FirstKey(data.d, LAMBDA key : Contains(key, "Time Series"))
    IN IF time_series_key # None /\ time_series_key[1] # ""
       THEN LET time_series_data == Get(data, time_series_key[1]).d
                normalized_time_series ==
                    [i \in 1..Len(time_series_data) |->
                        LET values == MapPresent(crypto_value_key_mappings,
                                                 time_series_data[i][2])
                        IN <<time_series_data[i][1],
                             PyDict([j \in 1..Len(values.d) |->
                                        <<values.d[j][1], Str(values.d[j][2])>>])>>]
            IN Put(with_metadata, "items", items_array(normalized_time_series))
       ELSE with_metadata

\* get_stock_time_series, after fetch_time_series has answered
clean_stock_series(interval, raw_data) ==
    IF ~IsDict(raw_data) THEN raw_data
    ELSE LET with_metadata ==
                 IF In("Meta Data", raw_data)
                 THEN LET meta == Get(raw_data, "Meta Data")
                      IN PyDict(<<<<"metadata", DropNone(PyDict(
                             <<<<"information", Get(meta, "1. Information")>>,
                               <<"symbol", Get(meta, "2. Symbol")>>,
                               <<"last_refreshed", Get(meta, "3. Last Refreshed")>>,
                               <<"output_size", Get(meta, "4. Output Size")>>,
                               <<"time_zone", Get(meta, "5. Time Zone")>>,
                               <<"interval", Or(Get(meta, "4. Interval"), PyStr(interval))>>>>))>>>>)
                 ELSE EmptyDict
             time_series_key == FirstKey(raw_data.d, LAMBDA key : Contains(key, "Time Series"))
         IN IF time_series_key # None /\ time_series_key[1] # ""
            THEN LET time_series == Get(raw_data, time_series_key[1]).d
                     cleaned_time_series ==
                         [i \in 1..Len(time_series) |->
                             LET data == time_series[i][2]
                             IN <<time_series[i][1], DropNone(PyDict(
                                    <<<<"open", Get(data, "1. open")>>,
                                      <<"high", Get(data, "2. high")>>,
                                      <<"low", Get(data, "3. low")>>,
                                      <<"close", Get(data, "4. close")>>,
                                      <<"adjusted_close", Get(data, "5. adjusted close")>>,
                                      <<"volume", Or(Get(data, "5. volume"),
                                                     Get(data, "6. volume"))>>,
                                      <<"dividend_amount", Get(data, "7. dividend amount")>>,
                                      <<"split_coefficient",
                                        Get(data, "8. split coefficient")>>>>))>>]
                 IN Put(with_metadata, "items", items_array(cleaned_time_series))
            ELSE with_metadata

\* get_earning_data.camel_to_snake: re.sub("(.)([A-Z][a-z]+)", r"\1_\2", name)
RECURSIVE SubWordStart(_)
SubWordStart(s) ==
    IF Len(s) < 3 THEN s
    ELSE IF IsUpper(SubSeq(s, 2, 2)) /\ IsLower(SubSeq(s, 3, 3))
    THEN LET n == CHOOSE k \in 3..Len(s) :
                      /\ \A j \in 3..k : IsLower(SubSeq(s, j, j))
                      /\ (k = Len(s) \/ ~IsLower(SubSeq(s, k + 1, k + 1)))
         IN SubSeq(s, 1, 1) \o "_" \o SubSeq(s, 2, n) \o SubWordStart(SubSeq(s, n + 1, Len(s)))
    ELSE SubSeq(s, 1, 1) \o SubWordStart(SubSeq(s, 2, Len(s)))

\* re.sub("([a-z0-9])([A-Z])", r"\1_\2", s1)
RECURSIVE SubLowerUpper(_)
SubLowerUpper(s) ==
    IF Len(s) < 2 THEN s
    ELSE IF (IsLower(SubSeq(s, 1, 1)) \/ IsDigit(SubSeq(s, 1, 1))) /\ IsUpper(SubSeq(s, 2, 2))
    THEN SubSeq(s, 1, 1) \o "_" \o SubSeq(s, 2, 2) \o SubLowerUpper(SubSeq(s, 3, Len(s)))
    ELSE SubSeq(s, 1, 1) \o SubLowerUpper(SubSeq(s, 2, Len(s)))

camel_to_snake(name) == StrLower(SubLowerUpper(SubWordStart(name)))

DigitValue(c) == (CHOOSE j \in 1..10 : SubSeq("0123456789", j, j) = c) - 1

\* the days of a month of the calendar datetime.strptime accepts
DaysInMonth(year, month) ==
    IF month = 2
    THEN (IF year % 4 = 0 /\ (year % 100 # 0 \/ year % 400 = 0) THEN 29 ELSE 28)
    ELSE IF month \in {4, 6, 9, 11} THEN 30 ELSE 31

\* get_earning_data.fiscal_date_to_quarter, for dates written YYYY-MM-DD with
\* a year of four significant digits; any other value gives "Unknown"
fiscal_date_to_quarter(fiscal_date) ==
    LET s == fiscal_date.s
        parses ==
            /\ fiscal_date.type = "str"
            /\ Len(s) = 10
            /\ \A j \in 1..10 : IF j \in {5, 8} THEN SubSeq(s, j, j) = "-"
                                ELSE IsDigit(SubSeq(s, j, j))
            /\ SubSeq(s, 1, 1) # "0"
            /\ 10 * DigitValue(SubSeq(s, 6, 6)) + DigitValue(SubSeq(s, 7, 7)) \in 1..12
            /\ 10 * DigitValue(SubSeq(s, 9, 9)) + DigitValue(SubSeq(s, 10, 10))
                 \in 1..DaysInMonth(
                         1000 * DigitValue(SubSeq(s, 1, 1)) + 100 * DigitValue(SubSeq(s, 2, 2))
                         + 10 * DigitValue(SubSeq(s, 3, 3)) + DigitValue(SubSeq(s, 4, 4)),
                         10 * DigitValue(SubSeq(s, 6, 6)) + DigitValue(SubSeq(s, 7, 7)))
    IN IF ~parses THEN "Unknown"
       ELSE LET month == 10 * DigitValue(SubSeq(s, 6, 6)) + DigitValue(SubSeq(s, 7, 7))
                quarter_num == IF month \in {1, 2, 3} THEN "Q1"
                               ELSE IF month \in {4, 5, 6} THEN "Q2"
                               ELSE IF month \in {7, 8, 9} THEN "Q3"
                               ELSE "Q4"
            IN SubSeq(s, 1, 4) \o "-" \o quarter_num

\* for key, value in item.items(): transformed_item[camel_to_snake(key)] = value
RECURSIVE transformed_item(_, _)
transformed_item(pairs, acc) ==
    IF pairs = <<>> THEN acc
    ELSE transformed_item(Tail(pairs), Put(acc, camel_to_snake(Head(pairs)[1]), Head(pairs)[2]))

earning_data(quarter, earnings_data) ==
    LET with_symbol == PyDict(<<<<"symbol", GetOr(earnings_data, "symbol", PyStr(""))>>>>)
        with_annual ==
            IF In("annualEarnings", earnings_data)
            THEN LET items == Get(earnings_data, "annualEarnings").l
                 IN Put(with_symbol, "annual_earnings",
                        PyList([i \in 1..Len(items) |-> transformed_item(items[i].d, EmptyDict)]))
            ELSE with_symbol
        quarterly_earnings ==
            LET items == Get(earnings_data, "quarterlyEarnings").l
            IN [i \in 1..Len(items) |->
                   LET item == transformed_item(items[i].d, EmptyDict)
                   IN IF In("fiscalDateEnding", items[i])
                      THEN Put(item, "quarter",
                               PyStr(fiscal_date_to_quarter(Get(items[i], "fiscalDateEnding"))))
                      ELSE item]
    IN IF ~In("quarterlyEarnings", earnings_data) THEN with_annual
       ELSE IF quarter # None /\ quarter[1] # ""
       THEN Put(with_annual, "quarterly_earnings",
                PyList(SelectSeq(quarterly_earnings,
                                 LAMBDA q : Get(q, "quarter") = PyStr(quarter[1]))))
       ELSE Put(with_annual, "quarterly_earnings", PyList(quarterly_earnings))

---------------------------------------------------------------------------
(* The handlers that normalize keys and the routers in front of them *)

KeyNormalizers ==
    {"get_current_stock_quote", "get_stock_time_series", "lookup_stock_symbol",
     "get_corporate_actions", "get_current_fx_rate", "get_fx_time_series",
     "get_current_crypto_quote", "get_crypto_time_series"}

\* the handlers that assemble the payloads of several calls
BundleComposers ==
    {"get_financial_statements", "get_growth_metrics", "get_rates_yields",
     "get_prices_inflation", "get_labor_activity"}

\* the handlers that hand one payload on, and the stub that has none
PassThroughs ==
    {"get_global_markets_status", "get_historical_options", "get_news_sentiment",
     "get_stock_insider_transactions", "get_top_gainers_losers"}

Handlers ==
    KeyNormalizers \cup BundleComposers \cup PassThroughs
    \cup {"get_earning_data", "get_symbol_overview", "get_commodities"}

\* the most maturities a caller lists
MaxMaturities == 4

AllMaturities == <<"10year", "2year", "30year", "5year", "3month", "7year">>

\* maturities: left out, or the first n of the list above
MaturityInputs == {None} \cup {Some(SubSeq(AllMaturities, 1, n)) : n \in 0..MaxMaturities}

\* **params of a call: none, or outputsize
ParamsInputs == {<<>>, <<<<"outputsize", "full">>>>}

HandlerArgs(h) ==
    CASE h = "get_current_stock_quote" -> [symbol : {"IBM"}]
      [] h = "get_stock_time_series" ->
            {a \in TimeSeriesArgs : a.symbol = "IBM" /\ a.month = None
                                    /\ a.extended_hours /\ a.outputsize = "compact"}
      [] h = "lookup_stock_symbol" -> [keywords : {"ibm"}]
      [] h = "get_corporate_actions" -> [symbol : {"IBM"}]
      [] h = "get_current_fx_rate" -> [from_currency : {"USD"}, to_currency : {"EUR"}]
      [] h = "get_fx_time_series" ->
            [from_symbol : {"EUR"}, to_symbol : {"USD"}, interval : IntervalInputs,
             params : ParamsInputs]
      [] h = "get_current_crypto_quote" -> [symbol : {"BTC"}, market : {"USD"}]
      [] h = "get_crypto_time_series" ->
            [symbol : {"BTC"}, market : {"USD"}, interval : IntervalInputs,
             params : ParamsInputs]
      [] h = "get_earning_data" -> [symbol : {"IBM"}, quarter : {None, Some(""), Some("2024-Q3")}]
      [] h = "get_symbol_overview" ->
            [symbol : {"IBM"}, profile_type : {"company", "etf", "fund", "Company", ""}]
      [] h = "get_financial_statements" ->
            [symbol : {"IBM"},
             statement_type : {"all", "income", "balance", "cash_flow",
                               "ALL", "Income", "Cash_Flow", "quarterly", "Annual", ""}]
      [] h = "get_labor_activity" ->
            [include_demand : BOOLEAN, frequency : {"monthly"},
             seasonally_adjusted : BOOLEAN, params : {<<>>}]
      [] h = "get_growth_metrics" ->
            [frequency : {"quarterly"}, seasonally_adjusted : BOOLEAN, params : ParamsInputs]
      [] h = "get_rates_yields" ->
            [maturities : MaturityInputs, yield_basis : {"actual"},
             include_target_range : BOOLEAN, frequency : {"monthly"}, params : {<<>>}]
      [] h = "get_prices_inflation" ->
            [include_core : BOOLEAN, annualized : {FALSE}, frequency : {"monthly"},
             seasonally_adjusted : BOOLEAN, params : {<<>>}]
      [] h = "get_commodities" ->
            [interval : {"monthly", "daily"}, commodity : {"all", "oil"}, params : {<<>>}]
      [] h = "get_global_markets_status" -> {<<>>}
      [] h = "get_historical_options" ->
            [symbol : {"IBM"}, date : {"2024-01-09"}, datatype : {"json", "csv"}]
      [] h = "get_news_sentiment" ->
            [tickers : {<<"IBM">>, <<"IBM", "AAPL">>}, topics : {None, Some(<<"earnings">>)},
             start_time : {None}, end_time : {None}, sort : {"LATEST", "RELEVANCE"}]
      [] h = "get_stock_insider_transactions" -> [symbol : Symbols]
      [] h = "get_top_gainers_losers" -> {<<>>}

\* the message of get_financial_statements' ValueError
statement_message(statement_type) ==
    "Unsupported statement type: " \o statement_type
    \o ". Supported types: 'income', 'balance', 'cash_flow', 'all'"

statement_type_as_given(statement_type) == statement_type

\* statement_type = statement_type.lower()
statement_type_lower(statement_type) == StrLower(statement_type)

\* get_labor_activity: the metric and type of its entries, in fetch order
labor_metrics ==
    <<<<"unemployment", "Unemployment Rate">>, <<"nonfarm_payrolls", "Nonfarm Payrolls">>,
      <<"retail_sales", "Retail Sales">>, <<"durables", "Durable Goods Orders">>>>

labor_entry(metric, raw_data) ==
    PyDict(<<<<"metric", PyStr(metric[1])>>, <<"raw_data", raw_data>>,
             <<"type", PyStr(metric[2])>>>>)

\* get_growth_metrics and get_prices_inflation: metric and type, in fetch order
growth_metrics == <<<<"real_gdp", "Real GDP">>, <<"real_gdp_per_capita", "Real GDP per capita">>>>

prices_metrics == <<<<"cpi", "Consumer Price Index">>, <<"inflation", "Inflation Rate">>>>

\* get_rates_yields: "if maturities is None: maturities = ["10year"]"
rates_maturities(a) == IF a.maturities = None THEN <<"10year">> ELSE a.maturities[1]

treasury_entry(maturity, raw_data) ==
    PyDict(<<<<"metric", PyStr("treasury_yield_" \o maturity)>>, <<"raw_data", raw_data>>,
             <<"type", PyStr("Treasury Yield " \o maturity)>>,
             <<"maturity", PyStr(maturity)>>>>)

\* the federal funds rate entry put after the treasury entries
rates_results_fed_last(a, raw) ==
    LET shift == IF a.include_target_range THEN 1 ELSE 0
        maturities == rates_maturities(a)
    IN [i \in 1..Len(maturities) |-> treasury_entry(maturities[i], raw[i + shift])]
       \o (IF a.include_target_range
           THEN <<labor_entry(<<"federal_funds_rate", "Federal Funds Rate">>, raw[1])>>
           ELSE <<>>)

\* get_rates_yields: the entries of the payloads, the federal funds rate first
rates_results(a, raw) ==
    LET shift == IF a.include_target_range THEN 1 ELSE 0
        maturities == rates_maturities(a)
    IN (IF a.include_target_range
        THEN <<labor_entry(<<"federal_funds_rate", "Federal Funds Rate">>, raw[1])>>
        ELSE <<>>)
       \o [i \in 1..Len(maturities) |-> treasury_entry(maturities[i], raw[i + shift])]

\* get_commodities: one record per entry of the payload's data, or the fallback
commodities(a, raw_data) ==
    IF IsDict(raw_data) /\ In("data", raw_data)
    THEN LET data == Get(raw_data, "data").l
         IN PyDict(<<<<"interval", PyStr(a.interval)>>, <<"commodity", PyStr(a.commodity)>>,
                     <<"data", PyList([i \in 1..Len(data) |->
                          PyDict(<<<<"name", GetOr(raw_data, "name", PyStr(""))>>,
                                   <<"unit", GetOr(raw_data, "unit", PyStr(""))>>,
                                   <<"interval", GetOr(raw_data, "interval", PyStr(a.interval))>>,
                                   <<"date", GetOr(data[i], "date", PyStr(""))>>,
                                   <<"value", GetOr(data[i], "value", PyStr(""))>>>>)])>>>>)
    ELSE PyDict(<<<<"interval", PyStr(a.interval)>>, <<"commodity", PyStr(a.commodity)>>,
                  <<"data", PyList(<<>>)>>,
                  <<"error", PyStr("Unexpected data format from API")>>>>)

\* the second get_top_gainers_losers of the module, which is the one registered
top_gainers_losers_stub ==
    PyDict(<<<<"metadata",
               PyDict(<<<<"information",
                          PyStr("Top gainers, losers, and most actively traded US tickers")>>,
                        <<"last_updated", PyStr("2024-01-01 00:00:00")>>>>)>>,
             <<"top_gainers", PyList(<<>>)>>, <<"top_losers", PyList(<<>>)>>,
             <<"most_actively_traded", PyList(<<>>)>>>>)

\* the Data Source calls a handler issues, in order, or the error it raises
\* before the first of them
CallPlan(h, a) ==
    CASE h = "get_current_stock_quote" ->
            Returns(<<Call("fetch_quote", [symbol |-> a.symbol, datatype |-> "json"])>>)
      [] h = "get_stock_time_series" ->
            IF TimeSeriesRoute(a) = None
            THEN Raises(ValueError("Unsupported interval: " \o a.interval))
            ELSE Returns(TimeSeriesRoute(a))
      [] h = "lookup_stock_symbol" ->
            Returns(<<Call("search_endpoint", [keywords |-> a.keywords, datatype |-> "json"])>>)
      [] h = "get_corporate_actions" ->
            Returns(<<Call("company_dividends", [symbol |-> a.symbol]),
                      Call("fetch_company_splits", [symbol |-> a.symbol])>>)
      [] h = "get_current_fx_rate" ->
            Returns(<<Call("fetch_exchange_rate",
                           [from_currency |-> a.from_currency,
                            to_currency |-> a.to_currency])>>)
      [] h = "get_fx_time_series" ->
            IF a.interval \in {"1min", "5min", "15min", "30min", "60min"}
            THEN Returns(<<Call("fetch_fx_intraday",
                                [from_symbol |-> a.from_symbol, to_symbol |-> a.to_symbol,
                                 interval |-> a.interval, params |-> a.params])>>)
            ELSE IF a.interval \in {"daily", "weekly", "monthly"}
            THEN Returns(<<Call("fetch_fx_" \o a.interval,
                                [from_symbol |-> a.from_symbol, to_symbol |-> a.to_symbol,
                                 params |-> a.params])>>)
            ELSE Raises(ValueError("Unsupported interval: " \o a.interval))
      [] h = "get_current_crypto_quote" ->
            Returns(<<Call("fetch_digital_currency_daily",
                           [symbol |-> a.symbol, market |-> a.market])>>)
      [] h = "get_crypto_time_series" ->
            IF a.interval \in {"1min", "5min", "15min", "30min", "60min"}
            THEN Returns(<<Call("fetch_digital_currency_intraday",
                                [symbol |-> a.symbol, market |-> a.market,
                                 interval |-> a.interval, params |-> a.params])>>)
            ELSE IF a.interval \in {"daily", "weekly", "monthly"}
            THEN Returns(<<Call("fetch_digital_currency_" \o a.interval,
                                [symbol |-> a.symbol, market |-> a.market])>>)
            ELSE Raises(ValueError("Unsupported interval: " \o a.interval))
      [] h = "get_earning_data" ->
            Returns(<<Call("fetch_earnings", [symbol |-> a.symbol])>>)
      [] h = "get_symbol_overview" ->
            IF a.profile_type = "company"
            THEN Returns(<<Call("fetch_company_overview", [symbol |-> a.symbol])>>)
            ELSE IF a.profile_type = "etf"
            THEN Returns(<<Call("fetch_etf_profile", [symbol |-> a.symbol])>>)
            ELSE Raises(ValueError("Unsupported profile type: " \o a.profile_type))
      [] h = "get_financial_statements" ->
            LET statement_type == statement_type_lower(a.statement_type)
                income == Call("fetch_income_statement", [symbol |-> a.symbol])
                balance == Call("fetch_balance_sheet", [symbol |-> a.symbol])
                cash_flow == Call("fetch_cash_flow", [symbol |-> a.symbol])
            IN IF statement_type = "all" THEN Returns(<<income, balance, cash_flow>>)
               ELSE IF statement_type = "income" THEN Returns(<<income>>)
               ELSE IF statement_type = "balance" THEN Returns(<<balance>>)
               ELSE IF statement_type = "cash_flow" THEN Returns(<<cash_flow>>)
               ELSE Raises(ValueError(statement_message(statement_type)))
      [] h = "get_labor_activity" ->
            LET core == <<Call("fetch_unemployment", [params |-> a.params]),
                          Call("fetch_nonfarm_payrolls", [params |-> a.params])>>
            IN IF a.include_demand
               THEN Returns(core \o <<Call("fetch_retail_sales", [params |-> a.params]),
                                       Call("fetch_durables", [params |-> a.params])>>)
               ELSE Returns(core)
      [] h = "get_growth_metrics" ->
            Returns(<<Call("fetch_real_gdp", [params |-> a.params]),
                      Call("fetch_real_gdp_per_capita", [params |-> a.params])>>)
      [] h = "get_rates_yields" ->
            LET maturities == rates_maturities(a)
            IN Returns((IF a.include_target_range
                        THEN <<Call("fetch_federal_funds_rate", [params |-> a.params])>>
                        ELSE <<>>)
                       \o [i \in 1..Len(maturities) |->
                              Call("fetch_treasury_yield",
                                   [maturity |-> maturities[i], params |-> a.params])])
      [] h = "get_prices_inflation" ->
            Returns(<<Call("fetch_cpi", [params |-> a.params]),
                      Call("fetch_inflation", [params |-> a.params])>>)
      [] h = "get_commodities" ->
            Returns(<<Call("fetch_all_commodities",
                           [interval |-> a.interval, params |-> a.params])>>)
      [] h = "get_global_markets_status" -> Returns(<<Call("fetch_market_status", <<>>)>>)
      [] h = "get_historical_options" ->
            Returns(<<Call("fetch_historical_options",
                           [symbol |-> a.symbol, datatype |-> a.datatype, date |-> a.date])>>)
      [] h = "get_news_sentiment" ->
            Returns(<<Call("fetch_news_sentiment",
                           [tickers |-> a.tickers, topics |-> a.topics,
                            start_time |-> a.start_time, end_time |-> a.end_time,
                            sort |-> a.sort])>>)
      [] h = "get_stock_insider_transactions" ->
            Returns(<<Call("fetch_insider_transactions", [symbol |-> a.symbol])>>)
      [] h = "get_top_gainers_losers" -> Returns(<<>>)

\* what a handler does with the payloads of its calls once the last has answered
HandlerResult(h, a, raw) ==
    CASE h = "get_current_stock_quote" -> Returns(current_stock_quote(raw[1]))
      [] h = "get_stock_time_series" -> Returns(clean_stock_series(a.interval, raw[1]))
      [] h = "lookup_stock_symbol" -> Returns(stock_symbol_matches(a.keywords, raw[1]))
      [] h = "get_corporate_actions" -> Returns(corporate_actions(a.symbol, raw[1], raw[2]))
      [] h = "get_current_fx_rate" -> Returns(normalize_fx_rate_keys(raw[1]))
      [] h = "get_fx_time_series" -> Returns(normalize_fx_series_keys(raw[1]))
      [] h = "get_current_crypto_quote" -> normalize_crypto_quote(a.symbol, a.market, raw[1])
      [] h = "get_crypto_time_series" ->
            Returns(normalize_crypto_series(
                raw[1], a.interval \notin {"1min", "5min", "15min", "30min", "60min"}))
      [] h = "get_earning_data" -> Returns(earning_data(a.quarter, raw[1]))
      [] h = "get_symbol_overview" -> Returns(raw[1])
      [] h = "get_financial_statements" ->
            IF Len(raw) = 3
            THEN Returns(PyDict(<<<<"symbol", PyStr(a.symbol)>>,
                                  <<"income_statement", raw[1]>>,
                                  <<"balance_sheet", raw[2]>>,
                                  <<"cash_flow", raw[3]>>>>))
            ELSE Returns(raw[1])
      [] h = "get_labor_activity" ->
            Returns(PyDict(<<<<"frequency", PyStr(a.frequency)>>,
                             <<"seasonally_adjusted", PyBool(a.seasonally_adjusted)>>,
                             <<"include_demand", PyBool(a.include_demand)>>,
                             <<"data", PyList([i \in 1..Len(raw) |->
                                                  labor_entry(labor_metrics[i], raw[i])])>>>>))
      [] h = "get_growth_metrics" ->
            Returns(PyDict(<<<<"frequency", PyStr(a.frequency)>>,
                             <<"seasonally_adjusted", PyBool(a.seasonally_adjusted)>>,
                             <<"data", PyList([i \in 1..2 |->
                                                  labor_entry(growth_metrics[i], raw[i])])>>>>))
      [] h = "get_rates_yields" ->
            LET maturities == rates_maturities(a)
            IN Returns(PyDict(<<<<"frequency", PyStr(a.frequency)>>,
                                <<"yield_basis", PyStr(a.yield_basis)>>,
                                <<"maturities", PyList([i \in 1..Len(maturities) |->
                                                           PyStr(maturities[i])])>>,
                                <<"data", PyList(rates_results(a, raw))>>>>))
      [] h = "get_prices_inflation" ->
            Returns(PyDict(<<<<"frequency", PyStr(a.frequency)>>,
                             <<"seasonally_adjusted", PyBool(a.seasonally_adjusted)>>,
                             <<"include_core", PyBool(a.include_core)>>,
                             <<"annualized", PyBool(a.annualized)>>,
                             <<"data", PyList([i \in 1..2 |->
                                                  labor_entry(prices_metrics[i], raw[i])])>>>>))
      [] h = "get_commodities" -> Returns(commodities(a, raw[1]))
      [] h = "get_global_markets_status" -> Returns(raw[1])
      [] h = "get_historical_options" -> Returns(raw[1])
      [] h = "get_news_sentiment" -> Returns(raw[1])
      [] h = "get_stock_insider_transactions" -> Returns(raw[1])
      [] h = "get_top_gainers_losers" -> Returns(top_gainers_losers_stub)

---------------------------------------------------------------------------
(* The payloads the Data Source answers the normalizing handlers with      *)

\* a payload with none of the expected containers
ErrorPayload == PyDict(<<<<"Information", PyStr("rate limit")>>>>)

\* a payload that is not a mapping
TextPayload == PyStr("Error")

\* how the values of a block are written: a text naming the upstream key they
\* stand under, the empty text, or null
Flavours == {"plain", "empty", "null"}

ValueOf(key, flavour) ==
    CASE flavour = "plain" -> PyStr("<" \o key \o ">")
      [] flavour = "empty" -> PyStr("")
      [] flavour = "null" -> PyNone

\* a key no mapping names
UnknownKey == "99. unknown"

UpstreamKeys(mappings) == [i \in 1..Len(mappings) |-> mappings[i][1]]

\* the keys at the positions S, in order
Pick(keys, S) ==
    LET F[i \in 0..Len(keys)] ==
            IF i = 0 THEN <<>>
            ELSE IF i \in S THEN Append(F[i - 1], keys[i]) ELSE F[i - 1]
    IN F[Len(keys)]

\* no position, one position, all but one, and all of 1..n
EdgeSets(n) == {S \in SUBSET (1..n) : Cardinality(S) <= 1 \/ Cardinality(S) >= n - 1}

\* the blocks holding the keys at the positions of one of the sets, and
\* UnknownKey where the set names the position after the last key
Blocks(upstream_keys, sets) ==
    {PyDict([i \in 1..Len(ks) |-> <<ks[i], ValueOf(ks[i], f)>>]) :
        ks \in {Pick(upstream_keys \o <<UnknownKey>>, S) : S \in sets}, f \in Flavours}

FullBlock(upstream_keys) ==
    PyDict([i \in 1..Len(upstream_keys) |-> <<upstream_keys[i], ValueOf(upstream_keys[i], "plain")>>])

\* the date keys of a time-series block, in the order the block holds them
DateLists ==
    {<<>>, <<"2024-01-09">>, <<"2024-01-10", "2024-01-09">>, <<"2024-01-09", "2024-01-10">>,
     <<"2024-01-10", "2024-02-01", "2024-01-09">>}

SeriesPayload(meta, time_series_key, dates, values) ==
    PyDict((IF meta = None THEN <<>> ELSE <<<<"Meta Data", meta[1]>>>>)
           \o (IF time_series_key = None THEN <<>>
               ELSE <<<<time_series_key[1],
                        PyDict([i \in 1..Len(dates) |-> <<dates[i], values>>])>>>>))

\* series payloads: the metadata block varied over a full series, the entries
\* varied under a full metadata block, and a payload without the series
SeriesPayloads(meta_keys, time_series_key, value_keys) ==
    {SeriesPayload(m, Some(time_series_key), <<"2024-01-10", "2024-01-09">>,
                   FullBlock(value_keys)) :
        m \in {None} \cup {Some(b) : b \in Blocks(meta_keys, EdgeSets(Len(meta_keys) + 1))}}
    \cup {SeriesPayload(Some(FullBlock(meta_keys)), Some(time_series_key), dates, b) :
            dates \in DateLists, b \in Blocks(value_keys, EdgeSets(Len(value_keys) + 1))}
    \cup {SeriesPayload(Some(FullBlock(meta_keys)), None, <<>>, EmptyDict), ErrorPayload}

\* the ways a series key is written: the three handlers' own daily keys and
\* keys with text before the words
SeriesKeyTexts(daily_key) == <<daily_key, "Weekly Time Series", "Monthly Adjusted " \o daily_key>>

\* the one date of the block standing under the i-th way of writing the key
VariantDates == <<"2024-01-09", "2024-01-12", "2024-01-31">>

\* payloads with one series key or two, each way of writing it and each order,
\* after a top-level key that is no series
SeriesKeyVariants(daily_key, value_keys) ==
    LET texts == SeriesKeyTexts(daily_key)
        entry(i) == <<texts[i], PyDict(<<<<VariantDates[i], FullBlock(value_keys)>>>>)>>
    IN {PyDict(<<<<"Note", PyStr("demo")>>, entry(i)>>) : i \in 1..Len(texts)}
       \cup {PyDict(<<<<"Note", PyStr("demo")>>, entry(p[1]), entry(p[2])>>) :
               p \in {q \in (1..Len(texts)) \X (1..Len(texts)) : q[1] # q[2]}}

stock_meta_keys ==
    <<"1. Information", "2. Symbol", "3. Last Refreshed", "4. Interval", "4. Output Size",
      "5. Time Zone">>

stock_value_keys ==
    <<"1. open", "2. high", "3. low", "4. close", "5. adjusted close", "5. volume",
      "6. volume", "7. dividend amount", "8. split coefficient">>

\* lists of records: none, one, and a full one before another
RecordLists(upstream_keys) ==
    {<<>>} \cup {<<b>> : b \in Blocks(upstream_keys, EdgeSets(Len(upstream_keys) + 1))}
    \cup {<<FullBlock(upstream_keys), b>> :
            b \in Blocks(upstream_keys, {{}, {Len(upstream_keys) + 1}})}

EarningsItems ==
    {<<>>,
     <<PyDict(<<<<"fiscalDateEnding", PyStr("2024-09-30")>>, <<"reportedEPS", PyStr("2.3")>>>>),
       PyDict(<<<<"fiscalDateEnding", PyStr("2024-06-30")>>,
                <<"vendorNote", PyStr("restated")>>>>)>>,
     <<PyDict(<<<<"fiscalDateEnding", PyStr("n/a")>>>>)>>,
     <<PyDict(<<<<"reportedEPS", PyStr("2.3")>>, <<"surprisePercentage", PyNone>>>>)>>}

EarningsPayloads ==
    {PyDict((IF s THEN <<<<"symbol", PyStr("IBM")>>>> ELSE <<>>)
            \o (IF an = None THEN <<>> ELSE <<<<"annualEarnings", PyList(an[1])>>>>)
            \o (IF qu = None THEN <<>> ELSE <<<<"quarterlyEarnings", PyList(qu[1])>>>>)) :
        s \in BOOLEAN, an \in {None} \cup {Some(x) : x \in EarningsItems},
        qu \in {None} \cup {Some(x) : x \in EarningsItems}}

\* payloads a handler hands on as they are: two mappings, a text (the
\* delimited form) and the rate-limit answer
OpaquePayloads ==
    {ErrorPayload, TextPayload, PyDict(<<<<"name", PyStr("series A")>>>>),
     PyDict(<<<<"name", PyStr("series B")>>>>)}

\* the payloads the i-th call of handler h may be answered with
Payloads ==
    [h \in Handlers |->
        CASE h = "get_current_stock_quote" ->
                {ErrorPayload}
                \cup {PyDict(<<<<"Global Quote", b>>>>) :
                        b \in Blocks(UpstreamKeys(quote_keys), EdgeSets(Len(quote_keys) + 1))}
          [] h = "get_stock_time_series" ->
                {TextPayload}
                \cup SeriesPayloads(stock_meta_keys, "Time Series (Daily)", stock_value_keys)
                \cup SeriesKeyVariants("Time Series (Daily)", stock_value_keys)
          [] h = "lookup_stock_symbol" ->
                {ErrorPayload, TextPayload}
                \cup {PyDict(<<<<"bestMatches", PyList(l)>>>>) :
                        l \in RecordLists(UpstreamKeys(match_keys))}
          [] h = "get_corporate_actions" ->
                {ErrorPayload}
                \cup {PyDict(<<<<"symbol", PyStr("IBM")>>, <<"data", PyList(l)>>>>) :
                        l \in RecordLists(UpstreamKeys(dividend_keys))
                              \cup RecordLists(UpstreamKeys(split_keys))}
          [] h = "get_current_fx_rate" ->
                {ErrorPayload, TextPayload}
                \cup {PyDict(<<<<"Realtime Currency Exchange Rate", b>>>>) :
                        b \in Blocks(UpstreamKeys(fx_rate_key_mappings),
                                     SUBSET (1..(Len(fx_rate_key_mappings) + 1)))}
          [] h = "get_fx_time_series" ->
                {TextPayload}
                \cup SeriesPayloads(UpstreamKeys(fx_metadata_key_mappings),
                                    "Time Series FX (Daily)",
                                    UpstreamKeys(fx_value_key_mappings))
                \cup SeriesKeyVariants("Time Series FX (Daily)",
                                       UpstreamKeys(fx_value_key_mappings))
          [] h = "get_current_crypto_quote" ->
                SeriesPayloads(UpstreamKeys(crypto_metadata_key_mappings),
                               "Time Series (Digital Currency Daily)",
                               UpstreamKeys(crypto_value_key_mappings))
          [] h = "get_crypto_time_series" ->
                SeriesPayloads(UpstreamKeys(crypto_metadata_key_mappings),
                               "Time Series (Digital Currency Daily)",
                               UpstreamKeys(crypto_value_key_mappings))
                \cup SeriesKeyVariants("Time Series (Digital Currency Daily)",
                                       UpstreamKeys(crypto_value_key_mappings))
          [] h = "get_earning_data" -> EarningsPayloads
          [] h = "get_symbol_overview" ->
                {ErrorPayload, PyDict(<<<<"Symbol", PyStr("IBM")>>>>)}
          [] h = "get_financial_statements" ->
                {ErrorPayload, PyDict(<<<<"symbol", PyStr("IBM")>>>>)}
          [] h = "get_labor_activity" ->
                {ErrorPayload, PyDict(<<<<"name", PyStr("series")>>>>)}
          [] h = "get_commodities" ->
                {ErrorPayload, TextPayload}
                \cup {PyDict(<<<<"name", PyStr("Crude Oil")>>, <<"data", PyList(l)>>>>) :
                        l \in RecordLists(<<"date", "value">>)}
          [] OTHER -> OpaquePayloads]

\* the form the payload of a call arrives in: the daily, weekly and monthly
\* digital currency operations answer with the JSON text
Delivered(call, payload) ==
    IF call.op \in {"fetch_digital_currency_daily", "fetch_digital_currency_weekly",
                    "fetch_digital_currency_monthly"}
    THEN PyJson(payload)
    ELSE payload

---------------------------------------------------------------------------
(* The handlers' steps *)

\* entry of handler h up to its first await, or up to its raise, or up to
\* its return where it awaits nothing
HandlerCall(h) ==
    /\ pc = "idle"
    /\ \E a \in HandlerArgs(h) :
        /\ handler' = h
        /\ args' = a
        /\ IF CallPlan(h, a).raised
           THEN /\ pc' = "raised"
                /\ error' = CallPlan(h, a).error
                /\ calls' = calls
                /\ result' = result
           ELSE IF CallPlan(h, a).value = <<>>
           THEN /\ pc' = "returned"
                /\ error' = error
                /\ calls' = calls
                /\ result' = Some(HandlerResult(h, a, <<>>).value)
           ELSE /\ pc' = "awaiting"
                /\ error' = error
                /\ calls' = Append(calls, CallPlan(h, a).value[1])
                /\ result' = result
    /\ UNCHANGED responses

\* an awaited call answers and the handler awaits its next call
HandlerFetchNext(h) ==
    /\ pc = "awaiting"
    /\ handler = h
    /\ Len(calls) < Len(CallPlan(h, args).value)
    /\ \E payload \in Payloads[h] :
        responses' = Append(responses, Delivered(calls[Len(calls)], payload))
    /\ calls' = Append(calls, CallPlan(h, args).value[Len(calls) + 1])
    /\ UNCHANGED <<pc, handler, args, result, error>>

\* the last awaited call answers; the handler returns its result or raises
HandlerReturn(h) ==
    /\ pc = "awaiting"
    /\ handler = h
    /\ Len(calls) = Len(CallPlan(h, args).value)
    /\ \E payload \in Payloads[h] :
        LET raw == Append(responses, Delivered(calls[Len(calls)], payload))
            outcome == HandlerResult(h, args, raw)
        IN /\ responses' = raw
           /\ IF outcome.raised
              THEN /\ pc' = "raised"
                   /\ error' = outcome.error
                   /\ result' = result
              ELSE /\ pc' = "returned"
                   /\ error' = error
                   /\ result' = Some(outcome.value)
    /\ UNCHANGED <<handler, args, calls>>

NextHandlers ==
    \E h \in Handlers : HandlerCall(h) \/ HandlerFetchNext(h) \/ HandlerReturn(h)

SpecHandlers == Init /\ [][NextHandlers]_vars

\* the routers with an enumerated discriminant, fetch_time_series with them
SpecRouters == Init /\ [][NextTimeSeries \/ NextHandlers]_vars

---------------------------------------------------------------------------
(* Claims on the key normalizers *)

NormalizerReturned == handler \in KeyNormalizers /\ pc = "returned"

\* the upstream key -> canonical key rows of the records get_stock_time_series
\* and get_current_crypto_quote build without a table of their own
stock_item_rows ==
    <<<<"1. open", "open">>, <<"2. high", "high">>, <<"3. low", "low">>,
      <<"4. close", "close">>, <<"5. adjusted close", "adjusted_close">>,
      <<"5. volume", "volume">>, <<"6. volume", "volume">>,
      <<"7. dividend amount", "dividend_amount">>,
      <<"8. split coefficient", "split_coefficient">>>>

stock_meta_rows ==
    <<<<"1. Information", "information">>, <<"2. Symbol", "symbol">>,
      <<"3. Last Refreshed", "last_refreshed">>, <<"4. Output Size", "output_size">>,
      <<"5. Time Zone", "time_zone">>, <<"4. Interval", "interval">>>>

crypto_quote_rows ==
    <<<<"2. Digital Currency Code", "symbol">>, <<"3. Digital Currency Name", "name">>,
      <<"4. Market Code", "market">>, <<"5. Market Name", "market_name">>,
      <<"6. Last Refreshed", "last_refreshed">>, <<"7. Time Zone", "time_zone">>>>

\* a normalized record beside the upstream block it was made from: rows are
\* the upstream key -> canonical key rows of its kind, given the keys the
\* normalizer adds by itself (the date of an item, the nested quote), meta
\* tells a metadata block
RecordPair(source, record, rows, given, meta) ==
    [source |-> source, record |-> record, rows |-> rows, given |-> given, meta |-> meta]

\* the pairs of a list of records made one for one from a list of blocks
ListPairs(sources, records, rows) ==
    {RecordPair(sources[i], records[i], rows, {}, FALSE) : i \in 1..Len(records)}

\* the pairs of a normalized series: each item beside the block entry of its
\* date, the metadata beside the Meta Data block
SeriesPairs(payload, out, item_rows, meta_rows) ==
    LET time_series_key ==
            IF handler = "get_fx_time_series"
            THEN FirstKey(payload.d, LAMBDA key : StartsWith(key, "Time Series"))
            ELSE FirstKey(payload.d, LAMBDA key : Contains(key, "Time Series"))
    IN (IF In("items", out)
        THEN LET items == Get(out, "items").l
             IN {RecordPair(Get(Get(payload, time_series_key[1]), Get(items[i], "date").s),
                            items[i], item_rows, {"date"}, FALSE) : i \in 1..Len(items)}
        ELSE {})
       \cup (IF In("metadata", out)
             THEN {RecordPair(Get(payload, "Meta Data"), Get(out, "metadata"),
                              meta_rows, {}, TRUE)}
             ELSE {})

\* the record pairs of the result a key normalizer has returned, when the
\* payload held the container the normalizer reads
RecordPairs ==
    IF ~NormalizerReturned THEN {}
    ELSE LET raw == responses[1]
             out == result[1]
         IN CASE handler = "get_current_stock_quote" ->
                    IF In("Global Quote", raw)
                    THEN {RecordPair(Get(raw, "Global Quote"), Get(out, "quote"),
                                     quote_keys, {}, FALSE)}
                    ELSE {}
              [] handler = "lookup_stock_symbol" ->
                    IF IsDict(raw) /\ In("bestMatches", raw)
                    THEN ListPairs(Get(raw, "bestMatches").l, Get(out, "matches").l, match_keys)
                    ELSE {}
              [] handler = "get_corporate_actions" ->
                    ListPairs(GetOr(raw, "data", PyList(<<>>)).l,
                              Get(out, "dividends").l, dividend_keys)
                    \cup ListPairs(GetOr(responses[2], "data", PyList(<<>>)).l,
                                   Get(out, "splits").l, split_keys)
              [] handler = "get_current_fx_rate" ->
                    IF IsDict(raw) /\ In("Realtime Currency Exchange Rate", raw)
                    THEN {RecordPair(Get(raw, "Realtime Currency Exchange Rate"), out,
                                     fx_rate_key_mappings, {}, FALSE)}
                    ELSE {}
              [] handler = "get_fx_time_series" ->
                    IF IsDict(raw)
                    THEN SeriesPairs(raw, out, fx_value_key_mappings, fx_metadata_key_mappings)
                    ELSE {}
              [] handler = "get_current_crypto_quote" ->
                    LET data == raw.json
                        series == Get(data, "Time Series (Digital Currency Daily)")
                        date == Get(Get(out, "current_quote"), "date").s
                    IN {RecordPair(Get(series, date), Get(out, "current_quote"),
                                   crypto_value_key_mappings, {"date"}, FALSE),
                        RecordPair(GetOr(data, "Meta Data", EmptyDict), out,
                                   crypto_quote_rows, {"current_quote"}, FALSE)}
              [] handler = "get_crypto_time_series" ->
                    SeriesPairs(IF raw.type = "dict" THEN raw ELSE raw.json, out,
                                crypto_value_key_mappings, crypto_metadata_key_mappings)
              [] handler = "get_stock_time_series" ->
                    IF IsDict(raw)
                    THEN SeriesPairs(raw, out, stock_item_rows, stock_meta_rows)
                    ELSE {}

\* the canonical keys of a record kind
CanonicalKeys(rows) == {rows[i][2] : i \in 1..Len(rows)}

\* the upstream keys the rows give for a canonical key
UpstreamOf(rows, canonical) == {rows[i][1] : i \in {j \in 1..Len(rows) : rows[j][2] = canonical}}

KeysOf(d) == {d.d[i][1] : i \in 1..Len(d.d)}

\* C11: in the result of every key normalizer, a canonical key whose upstream
\* key is absent from the upstream block does not appear in the record made
\* from that block: outside metadata blocks no record carries a null or
\* default placeholder for a missing source field.
C11_AbsentKeysOmitted ==
    \A p \in RecordPairs :
        ~p.meta =>
            \A canonical \in CanonicalKeys(p.rows) \cap KeysOf(p.record) :
                \E upstream \in UpstreamOf(p.rows, canonical) : In(upstream, p.source)

\* the one upstream key of a canonical key: its first row
PrimaryKey(rows, canonical) ==
    rows[CHOOSE i \in 1..Len(rows) :
            rows[i][2] = canonical /\ \A j \in 1..(i - 1) : rows[j][2] # canonical][1]

ValuesOf(d) == {d.d[i][2] : i \in 1..Len(d.d)}

\* the request parameters a key normalizer has at hand
RequestValues ==
    CASE handler = "get_stock_time_series" -> {PyStr(args.symbol), PyStr(args.interval)}
      [] handler \in {"get_current_crypto_quote", "get_crypto_time_series"} ->
            {PyStr(args.symbol), PyStr(args.market)}
      [] handler = "get_fx_time_series" -> {PyStr(args.from_symbol), PyStr(args.to_symbol)}
      [] handler = "get_current_fx_rate" ->
            {PyStr(args.from_currency), PyStr(args.to_currency)}
      [] handler = "lookup_stock_symbol" -> {PyStr(args.keywords)}
      [] OTHER -> {PyStr(args.symbol)}

\* C12: in the result of every key normalizer, the value under a canonical key
\* is the value of its one upstream key: where that key is in the upstream
\* block the record holds its value, and where it is not the record holds no
\* value taken from another upstream key or from a request parameter.
C12_OneUpstreamKey ==
    \A p \in RecordPairs :
        \A canonical \in CanonicalKeys(p.rows) \cap KeysOf(p.record) :
            LET upstream == PrimaryKey(p.rows, canonical)
                value == Get(p.record, canonical)
            IN IF In(upstream, p.source)
               THEN value \in {Get(p.source, upstream), Str(Get(p.source, upstream))}
               ELSE ~IsTruthy(value) \/ value \notin (ValuesOf(p.source) \cup RequestValues)

\* the numbered upstream key of each canonical key of an exchange rate
FxRateUpstreamKey ==
    [from_currency_code |-> "1. From_Currency Code",
     from_currency_name |-> "2. From_Currency Name",
     to_currency_code |-> "3. To_Currency Code",
     to_currency_name |-> "4. To_Currency Name",
     exchange_rate |-> "5. Exchange Rate",
     last_refreshed |-> "6. Last Refreshed",
     time_zone |-> "7. Time Zone",
     bid_price |-> "8. Bid Price",
     ask_price |-> "9. Ask Price"]

FxRateReturned ==
    /\ handler = "get_current_fx_rate" /\ pc = "returned"
    /\ IsDict(responses[1])
    /\ In("Realtime Currency Exchange Rate", responses[1])

\* C14: given a payload with a "Realtime Currency Exchange Rate" block,
\* get_current_fx_rate returns a mapping whose keys are exactly the canonical
\* keys whose numbered upstream key is in the block, each holding the
\* upstream value unchanged.
C14_FxRateKeys ==
    FxRateReturned =>
        LET block == Get(responses[1], "Realtime Currency Exchange Rate")
        IN /\ IsDict(result[1])
           /\ KeysOf(result[1]) =
                  {c \in DOMAIN FxRateUpstreamKey : In(FxRateUpstreamKey[c], block)}
           /\ \A c \in KeysOf(result[1]) :
                  Get(result[1], c) = Get(block, FxRateUpstreamKey[c])
           /\ \A i, j \in 1..Len(result[1].d) :
                  result[1].d[i][1] = result[1].d[j][1] => i = j

C14_Witness ==
    /\ FxRateReturned
    /\ responses[1] =
          PyDict(<<<<"Realtime Currency Exchange Rate",
                     PyDict(<<<<"1. From_Currency Code", PyStr("<1. From_Currency Code>")>>,
                              <<"5. Exchange Rate", PyStr("<5. Exchange Rate>")>>,
                              <<"99. unknown", PyStr("<99. unknown>")>>>>)>>>>)
    /\ result[1] =
          PyDict(<<<<"from_currency_code", PyStr("<1. From_Currency Code>")>>,
                   <<"exchange_rate", PyStr("<5. Exchange Rate>")>>>>)

---------------------------------------------------------------------------
(* Claims on the routers with an enumerated discriminant *)

RouterNames ==
    {"fetch_time_series", "get_stock_time_series", "get_fx_time_series",
     "get_crypto_time_series", "get_symbol_overview", "get_financial_statements"}

InRouter == handler \in RouterNames /\ pc # "idle"

\* the statement types get_financial_statements takes, in any letter case
StatementTypesAnyCase ==
    {"all", "income", "balance", "cash_flow", "ALL", "Income", "Cash_Flow"}

\* the discriminant of the entered router is outside its supported set
UnsupportedDiscriminant ==
    CASE handler = "get_symbol_overview" -> args.profile_type \notin {"company", "etf"}
      [] handler = "get_financial_statements" ->
            args.statement_type \notin StatementTypesAnyCase
      [] OTHER -> args.interval \notin SupportedIntervals

SupportedSet ==
    CASE handler = "get_symbol_overview" -> {"company", "etf"}
      [] handler = "get_financial_statements" -> {"all", "income", "balance", "cash_flow"}
      [] OTHER -> SupportedIntervals

Discriminant ==
    CASE handler = "get_symbol_overview" -> args.profile_type
      [] handler = "get_financial_statements" -> args.statement_type
      [] OTHER -> args.interval

\* C16 as stated: the error a router raises for an unsupported discriminant
\* names the offending value and lists every value of the supported set.
C16_ErrorNamesValueAndSet ==
    (InRouter /\ pc = "raised") =>
        /\ Contains(error.message, Discriminant)
        /\ \A v \in SupportedSet : Contains(error.message, v)

\* C17 as stated: get_financial_statements raises for every statement_type
\* that is not one of the four strings and does not raise for the four.
C17_Original ==
    (handler = "get_financial_statements" /\ pc # "idle") =>
        (args.statement_type \notin {"all", "income", "balance", "cash_flow"}
            <=> pc = "raised")

\* C17: get_financial_statements compares statement_type without regard to
\* letter case: it raises ValueError, with no call, for every statement_type
\* that is none of "all", "income", "balance", "cash_flow" in any letter
\* case, and for each of those four it raises nothing, issues three calls for
\* "all" and one for the others, and returns a result once they have answered.
C17_StatementTypes ==
    (handler = "get_financial_statements" /\ pc # "idle") =>
        IF args.statement_type \in StatementTypesAnyCase
        THEN /\ pc \in {"awaiting", "returned"}
             /\ error = NoError
             /\ Len(calls) <= (IF args.statement_type \in {"all", "ALL"} THEN 3 ELSE 1)
             /\ pc = "returned" =>
                   /\ result # None
                   /\ Len(calls) = (IF args.statement_type \in {"all", "ALL"} THEN 3 ELSE 1)
                   /\ Len(responses) = Len(calls)
        ELSE /\ pc = "raised"
             /\ error.type = "ValueError"
             /\ calls = <<>>
             /\ result = None

C17_Witness ==
    /\ handler = "get_financial_statements"
    /\ pc = "returned"
    /\ args.statement_type = "Cash_Flow"
    /\ calls = <<Call("fetch_cash_flow", [symbol |-> "IBM"])>>
    /\ result = Some(responses[1])

---------------------------------------------------------------------------
(* A failing Data Source call *)

\* the error of a Data Source call that fails
UpstreamFailure == [type |-> "UpstreamFailure", message |-> "the Data Source call failed"]

\* a handler that answers a failed call with a fallback mapping
on_failure_fallback(h, err) == Returns(PyDict(<<<<"error", PyStr(err.message)>>>>))

\* what handler h does with the error of an awaited call: no await of
\* handlers.py stands inside a try, so the error leaves the handler
on_failure(h, err) == Raises(err)

\* the awaited call of the running handler fails
DataSourceFails ==
    /\ pc = "awaiting"
    /\ IF on_failure(handler, UpstreamFailure).raised
       THEN /\ pc' = "raised"
            /\ error' = on_failure(handler, UpstreamFailure).error
            /\ result' = result
       ELSE /\ pc' = "returned"
            /\ error' = error
            /\ result' = Some(on_failure(handler, UpstreamFailure).value)
    /\ UNCHANGED <<handler, args, calls, responses>>

\* the invocation has ended with its last call unanswered: that call failed
CallFailed == pc \in {"returned", "raised"} /\ Len(calls) = Len(responses) + 1

\* C18: when a Data Source call of any handler fails, the invocation ends
\* raised with that very error and without a result, whatever was fetched
\* before; and from an ended invocation no step follows: the failed call is
\* not issued again and no further call is issued.
C18_FailurePropagates ==
    /\ [](CallFailed => pc = "raised" /\ error = UpstreamFailure /\ result = None)
    /\ [][pc \notin {"returned", "raised"}]_vars

C18_Witness ==
    /\ handler = "get_labor_activity"
    /\ args.include_demand
    /\ pc = "raised"
    /\ error = UpstreamFailure
    /\ Len(responses) = 2
    /\ calls[3].op = "fetch_retail_sales"
    /\ Len(calls) = 3
    /\ result = None

---------------------------------------------------------------------------
(* Claims on the errors a handler raises by itself *)

CryptoQuoteAnswered ==
    handler = "get_current_crypto_quote" /\ pc \in {"returned", "raised"}

\* the top-level keys of the crypto quote payload that name its time series
CryptoSeriesKeys ==
    {k \in KeysOf(responses[1].json) :
        Contains(k, "Time Series") /\ Contains(k, "Digital Currency")}

\* the payload holds no time-series block
ContainerAbsent == CryptoSeriesKeys = {}

\* the payload holds a time-series block without a date
ContainerEmpty ==
    \E k \in CryptoSeriesKeys : Get(responses[1].json, k) = EmptyDict

BadDiscriminantRaise == InRouter /\ UnsupportedDiscriminant /\ calls = <<>>

---------------------------------------------------------------------------
(* Claims on the closed schema *)

\* the canonical keys of an earnings record: the snake_case names of the
\* fields of the upstream earnings records, and the quarter added to them
EarningsCanonicalKeys ==
    {"fiscal_date_ending", "reported_date", "reported_eps", "estimated_eps", "surprise",
     "surprise_percentage", "report_time", "quarter"}

\* the earnings records of the result get_earning_data has returned
EarningsRecords ==
    IF handler = "get_earning_data" /\ pc = "returned"
    THEN LET out == result[1]
             annual == GetOr(out, "annual_earnings", PyList(<<>>)).l
             quarterly == GetOr(out, "quarterly_earnings", PyList(<<>>)).l
         IN {annual[i] : i \in 1..Len(annual)} \cup {quarterly[i] : i \in 1..Len(quarterly)}
    ELSE {}

\* C20 as stated: every key of a normalized record is a canonical key of its
\* record kind (or a key the normalizer adds by itself); no upstream key
\* outside the mapping reaches the output, renamed or not.
C20_ClosedSchema ==
    /\ \A p \in RecordPairs : KeysOf(p.record) \subseteq CanonicalKeys(p.rows) \cup p.given
    /\ \A record \in EarningsRecords : KeysOf(record) \subseteq EarningsCanonicalKeys

\* the table-driven normalizers alone keep the schema closed: the keys that
\* pass through are those of get_earning_data
C20_NormalizersClosed ==
    \A p \in RecordPairs : KeysOf(p.record) \subseteq CanonicalKeys(p.rows) \cup p.given

---------------------------------------------------------------------------
(* Claims on the time-series handlers *)

SeriesHandlers == {"get_stock_time_series", "get_fx_time_series", "get_crypto_time_series"}

\* the mapping a series handler has normalized: the payload of its one call,
\* decoded where it arrived as JSON text
SeriesData ==
    LET raw == responses[1]
    IN IF raw.type = "str" /\ "json" \in DOMAIN raw THEN raw.json ELSE raw

SeriesReturned ==
    handler \in SeriesHandlers /\ pc = "returned" /\ Len(responses) = 1 /\ IsDict(SeriesData)

\* the first top-level key, in insertion order, containing "Time Series"
FirstSeriesKey == FirstKey(SeriesData.d, LAMBDA key : Contains(key, "Time Series"))

\* the date keys of a block and the dates of an items array, as sets
BlockDates(block) == {block.d[i][1] : i \in 1..Len(block.d)}
ItemDates(out) ==
    LET items == Get(out, "items").l
    IN {Get(items[i], "date").s : i \in 1..Len(items)}

\* C21: in get_stock_time_series, get_fx_time_series and
\* get_crypto_time_series, whenever the payload has a top-level key containing
\* "Time Series", the result has `items`, built from the block under the first
\* such key in insertion order, whatever text surrounds the words.
C21_FirstSeriesKey ==
    SeriesReturned /\ FirstSeriesKey # None
        => /\ In("items", result[1])
           /\ ItemDates(result[1]) = BlockDates(Get(SeriesData, FirstSeriesKey[1]))

\* the same of the two handlers that test the key with `in`
C21_SubstringHandlers ==
    handler # "get_fx_time_series" => C21_FirstSeriesKey

\* the series key the handler that returned has read its block from
UsedSeriesKey ==
    IF handler = "get_fx_time_series"
    THEN FirstKey(SeriesData.d, LAMBDA key : StartsWith(key, "Time Series"))
    ELSE FirstSeriesKey

UsedBlock == Get(SeriesData, UsedSeriesKey[1])

SeriesItems == Get(result[1], "items").l

\* C22: for get_stock_time_series, get_fx_time_series and
\* get_crypto_time_series, whatever order the date-keyed block is in, `items`
\* has exactly one record per date key of the block, each record carries that
\* key as its `date`, and the records are in strictly ascending lexical order
\* of `date`.
C22_ItemsSortedOnePerDate ==
    SeriesReturned /\ In("items", result[1])
        => /\ UsedSeriesKey # None
           /\ Len(SeriesItems) = Len(UsedBlock.d)
           /\ \A i \in 1..Len(SeriesItems) :
                 In("date", SeriesItems[i]) /\ Get(SeriesItems[i], "date").type = "str"
           /\ ItemDates(result[1]) = BlockDates(UsedBlock)
           /\ \A i \in 1..(Len(SeriesItems) - 1) :
                 StrLess(Get(SeriesItems[i], "date").s, Get(SeriesItems[i + 1], "date").s)

\* a block that came newest date first was returned oldest date first
C22_Witness ==
    /\ SeriesReturned /\ In("items", result[1])
    /\ Len(UsedBlock.d) = 2
    /\ StrLess(UsedBlock.d[2][1], UsedBlock.d[1][1])
    /\ Get(SeriesItems[1], "date").s = UsedBlock.d[2][1]

---------------------------------------------------------------------------
(* Claims on the presets and the timestamps of the packs *)

PresetNames == {"fast", "standard", "slow"}

InPack == handler \in PackNames /\ pc # "idle"

\* C23: in each of the four packs a preset name outside {fast, standard,
\* slow} resolves to the middle preset: the calls the pack issues are, one for
\* one, the calls it issues for preset "standard", and no error is raised.
C23_UnknownPresetIsStandard ==
    InPack /\ args.preset \notin PresetNames
        => /\ pc # "raised" /\ error = NoError
           /\ Len(calls) >= 1
           /\ \A i \in 1..Len(calls) :
                 calls[i] = PackCallOf(handler, [args EXCEPT !.preset = "standard"], i)

\* a pack has made all its calls and returned under an unknown preset name
C23_Witness ==
    /\ InPack /\ args.preset \notin PresetNames
    /\ pc = "returned"
    /\ Len(calls) = Len(PackIndicators(handler))
    /\ handler = "get_volume_indicators"
    /\ calls[3].kwargs.fastperiod = 3

---------------------------------------------------------------------------
(* _normalize_timestamp on its own: the function applied to a timestamp    *)
(* of any length, and applied again to what it returned                    *)

\* the longest timestamp text given to the function
MaxStampLen == 21

\* a timestamp written out past the second, and every prefix of it
LongestStamp == "2024-01-09 16:30:45.000000000"

TimestampInputs == {SubSeq(LongestStamp, 1, n) : n \in 0..MaxStampLen}

DateIntervals == {"daily", "weekly", "monthly"}

TimestampIntervals == DateIntervals \cup {"1min", "5min", "60min"}

\* the longest text a first application returns
MaxNormalizedLen == MaxStampLen + Len(" 00:00:00")

\* _normalize_timestamp(timestamp, interval) is called and returns
NormalizeTimestampCall ==
    /\ pc = "idle"
    /\ \E timestamp \in TimestampInputs, interval \in TimestampIntervals :
        /\ args' = [timestamp |-> timestamp, interval |-> interval]
        /\ result' = Some(PyStr(normalize_timestamp(timestamp, interval)))
    /\ handler' = "_normalize_timestamp"
    /\ pc' = "returned"
    /\ UNCHANGED <<calls, responses, error>>

\* the function is called on what it returned, under the same interval
NormalizeTimestampAgain ==
    /\ pc = "returned"
    /\ handler = "_normalize_timestamp"
    /\ Len(result[1].s) <= MaxNormalizedLen
    /\ args' = [args EXCEPT !.timestamp = result[1].s]
    /\ result' = Some(PyStr(normalize_timestamp(result[1].s, args.interval)))
    /\ UNCHANGED <<pc, handler, calls, responses, error>>

NextTimestamps == NormalizeTimestampCall \/ NormalizeTimestampAgain

SpecTimestamps == Init /\ [][NextTimestamps]_vars

TimestampReturned == handler = "_normalize_timestamp" /\ pc = "returned"

\* C24 as stated: under a date interval every timestamp gets the midnight
\* suffix appended.
C24_Original ==
    TimestampReturned
        => LET t == args.timestamp
               out == result[1].s
           IN IF args.interval \in DateIntervals THEN out = t \o " 00:00:00"
              ELSE IF Len(t) = 16 THEN out = t \o ":00"
              ELSE IF Len(t) = 19 THEN out = t
              ELSE out = t \o " 00:00:00"

\* C24: for interval daily, weekly or monthly a 10-character date is emitted
\* with " 00:00:00" appended and any other timestamp unchanged; for any other
\* interval a 16-character timestamp gets ":00" appended, a 19-character one
\* passes through unchanged, and anything else gets " 00:00:00" appended.
C24_NormalizeTimestamp ==
    TimestampReturned
        => LET t == args.timestamp
               out == result[1].s
           IN IF args.interval \in DateIntervals
              THEN IF Len(t) = 10 THEN out = t \o " 00:00:00" ELSE out = t
              ELSE IF Len(t) = 16 THEN out = t \o ":00"
              ELSE IF Len(t) = 19 THEN out = t
              ELSE out = t \o " 00:00:00"

\* a complete timestamp came back unchanged under a date interval
C24_Witness ==
    /\ TimestampReturned
    /\ args.interval = "daily"
    /\ args.timestamp = "2024-01-09 16:30:45"
    /\ result[1].s = "2024-01-09 16:30:45"

\* C30 as stated: normalizing a normalized timestamp returns it unchanged,
\* for every interval and every input.
C30_Original == [][TimestampReturned => result' = result]_vars

\* C30: _normalize_timestamp is idempotent under a date interval, and under
\* any other interval for timestamps of 10, 16 or 19 characters:
\* normalizing the normalized timestamp returns it unchanged.
C30_Idempotent ==
    [][TimestampReturned
       /\ (args.interval \in DateIntervals \/ Len(args.timestamp) \in {10, 16, 19})
           => result' = result]_vars

\* the function was applied to the midnight form it had made of a date
C30_Witness ==
    /\ TimestampReturned
    /\ args.interval = "5min"
    /\ args.timestamp = "2024-01-09 00:00:00"
    /\ result[1].s = "2024-01-09 00:00:00"

---------------------------------------------------------------------------
(* Claims on the parameters the routers forward *)

Routers ==
    {"fetch_time_series", "get_fx_time_series", "get_crypto_time_series",
     "get_symbol_overview", "analyze_stocks"}

\* a router that has routed: its discriminant was supported
Routed == handler \in Routers /\ pc \in {"awaiting", "returned"}

\* the named parameters of a router other than its discriminant
RemainingParams(h) ==
    CASE h = "fetch_time_series" -> {"symbol", "outputsize", "month", "extended_hours"}
      [] h = "get_fx_time_series" -> {"from_symbol", "to_symbol"}
      [] h = "get_crypto_time_series" -> {"symbol", "market"}
      [] h = "get_symbol_overview" -> {"symbol"}
      [] h = "analyze_stocks" -> {"symbols", "interval", "calculations", "series_range", "ohlc"}

\* the value a parameter has when the caller leaves it out
IsDefault(h, p, value) ==
    /\ h = "fetch_time_series"
    /\ \/ p = "outputsize" /\ value = "compact"
       \/ p = "month" /\ value = None
       \/ p = "extended_hours" /\ value = TRUE

\* the call received parameter p with the caller's value
Forwarded(p) ==
    LET kwargs == calls[1].kwargs
    IN p \in DOMAIN kwargs
       /\ kwargs[p] = args[p]

\* the keyword parameters the caller passed beside the named ones reached the call
ParamsForwarded ==
    "params" \in DOMAIN args /\ args.params # <<>>
        => "params" \in DOMAIN calls[1].kwargs /\ calls[1].kwargs.params = args.params

\* C27: a router on a supported discriminant issues exactly one Data Source
\* call, and the call receives every remaining parameter the caller passed,
\* with the caller's value.
C27_RouterForwardsAll ==
    Routed
        => /\ Len(calls) = 1
           /\ \A p \in RemainingParams(handler) :
                 IsDefault(handler, p, args[p]) \/ Forwarded(p)
           /\ ParamsForwarded

\* the routers that forward all they are given
C27_ForwardingRouters ==
    handler \in {"get_fx_time_series", "get_symbol_overview", "analyze_stocks"}
        => C27_RouterForwardsAll

---------------------------------------------------------------------------
(* Claims on the bundle composers and the dispatch table *)

ComposerEntered == handler \in BundleComposers /\ pc \in {"awaiting", "returned"}

ComposerReturned == handler \in BundleComposers /\ pc = "returned"

\* C26: an invocation of a bundle composer that does not fail with
\* InvalidArgument issues at least 1 and at most 4 Data Source calls, for every
\* combination of its flags and list arguments.
C26_OneToFourCalls ==
    /\ ComposerEntered => Len(calls) <= 4
    /\ ComposerReturned => Len(calls) >= 1

\* the same of the composers whose calls do not depend on a list argument
C26_FlagComposers ==
    handler # "get_rates_yields" => C26_OneToFourCalls

ArrayComposers == BundleComposers \ {"get_financial_statements"}

\* the metric an entry has for the call it came from
MetricOfCall(call) ==
    CASE call.op = "fetch_unemployment" -> "unemployment"
      [] call.op = "fetch_nonfarm_payrolls" -> "nonfarm_payrolls"
      [] call.op = "fetch_retail_sales" -> "retail_sales"
      [] call.op = "fetch_durables" -> "durables"
      [] call.op = "fetch_federal_funds_rate" -> "federal_funds_rate"
      [] call.op = "fetch_treasury_yield" -> "treasury_yield_" \o call.kwargs.maturity
      [] call.op = "fetch_real_gdp" -> "real_gdp"
      [] call.op = "fetch_real_gdp_per_capita" -> "real_gdp_per_capita"
      [] call.op = "fetch_cpi" -> "cpi"
      [] call.op = "fetch_inflation" -> "inflation"

ArrayReturned == handler \in ArrayComposers /\ pc = "returned"

ComposerData == Get(result[1], "data").l

Metrics == [i \in 1..Len(ComposerData) |-> Get(ComposerData[i], "metric").s]

TreasuryMetrics(maturities) == [i \in 1..Len(maturities) |-> "treasury_yield_" \o maturities[i]]

\* C28: in the array-shaped bundle composers `data` has exactly one entry
\* with metric, raw_data and type per Data Source call issued, in issue order,
\* raw_data being that call's payload unmodified; get_labor_activity yields
\* unemployment and nonfarm_payrolls, and retail_sales and durables after them
\* exactly when include_demand is true; get_rates_yields yields the
\* federal_funds_rate entry exactly when include_target_range is true, followed
\* by one treasury_yield entry per requested maturity.
C28_OneEntryPerCall ==
    ArrayReturned
        => /\ Len(ComposerData) = Len(calls) /\ Len(responses) = Len(calls)
           /\ \A i \in 1..Len(ComposerData) :
                 /\ {"metric", "raw_data", "type"} \subseteq KeysOf(ComposerData[i])
                 /\ Get(ComposerData[i], "raw_data") = responses[i]
                 /\ Metrics[i] = MetricOfCall(calls[i])
           /\ handler = "get_labor_activity"
                 => Metrics = IF args.include_demand
                              THEN <<"unemployment", "nonfarm_payrolls", "retail_sales",
                                     "durables">>
                              ELSE <<"unemployment", "nonfarm_payrolls">>
           /\ handler = "get_rates_yields" /\ args.maturities # None
                 => Metrics = (IF args.include_target_range
                               THEN <<"federal_funds_rate">> ELSE <<>>)
                              \o TreasuryMetrics(args.maturities[1])

\* get_rates_yields returned the federal funds rate and two maturities, the
\* three calls answered with payloads that differ
C28_Witness ==
    /\ ArrayReturned
    /\ handler = "get_rates_yields"
    /\ args.include_target_range
    /\ args.maturities = Some(<<"10year", "2year">>)
    /\ Len(ComposerData) = 3
    /\ responses[1] # responses[2] /\ responses[2] # responses[3]

\* the operation names registered in TOOL_FUNCTIONS
TOOL_FUNCTIONS ==
    {"get_current_stock_quote", "get_stock_time_series", "lookup_stock_symbol",
     "get_global_markets_status", "get_historical_options", "get_top_gainers_losers",
     "get_news_sentiment", "get_stock_insider_transactions", "analyze_stocks",
     "get_symbol_overview", "get_financial_statements", "get_earning_data",
     "get_corporate_actions", "get_market_calendar", "get_listing_status",
     "get_current_fx_rate", "get_fx_time_series", "get_current_crypto_quote",
     "get_crypto_time_series", "get_commodities", "get_growth_metrics",
     "get_rates_yields", "get_prices_inflation", "get_labor_activity",
     "get_trend_indicators", "get_momentum_indicators", "get_volatility_indicators",
     "get_volume_indicators"}

\* C29: every operation registered in TOOL_FUNCTIONS that returns a result
\* has issued one or more Data Source calls, all of them answered, before it
\* returned.
C29_CallsBeforeResult ==
    handler \in TOOL_FUNCTIONS /\ pc = "returned"
        => Len(calls) >= 1 /\ Len(responses) = Len(calls)

\* the same of every registered operation but the two that can return without a call
C29_CallingOperations ==
    handler \notin {"get_top_gainers_losers", "get_rates_yields"} => C29_CallsBeforeResult

---------------------------------------------------------------------------
(* Claims on the order of the calls of a pack or bundle composer *)

Merging == handler \in PackNames \cup BundleComposers /\ pc \in {"awaiting", "returned"}

\* the operations a pack or composer calls, by the position of their name
OpsInOrder ==
    IF handler \in PackNames
    THEN [i \in 1..Len(PackIndicators(handler)) |-> FetchOp[PackIndicators(handler)[i]]]
    ELSE [i \in 1..Len(CallPlan(handler, args).value) |-> CallPlan(handler, args).value[i].op]

\* the payload that answered the call for an operation (for a maturity, where
\* the operation is called once per maturity)
ResponseOfOp(op) == responses[CHOOSE j \in 1..Len(calls) : calls[j].op = op]

ResponseOfMetric(metric) ==
    responses[CHOOSE j \in 1..Len(calls) : MetricOfCall(calls[j]) = metric]

\* the items of a pack stand grouped in the order of the pack's names, and
\* the items under a name are those of the payload of the call for that name
PackMergedByName ==
    LET items == result[1].d["items"]
        names == PackIndicators(handler)
        NameIndex(name) == CHOOSE i \in 1..Len(names) : Lower(names[i]) = name
    IN /\ \A p \in 1..(Len(items) - 1) :
             NameIndex(items[p].indicator) <= NameIndex(items[p + 1].indicator)
       /\ \A i \in 1..Len(names) :
             LET its == ItemsOfIndicator(i)
                 answer == ResponseOfOp(FetchOp[names[i]])
             IN IF ~(IsDict(answer) /\ "items" \in DOMAIN answer.d) THEN its = <<>>
                ELSE [p \in 1..Len(its) |-> its[p].timestamp]
                         = StampPerField(answer.d["items"], 1,
                                         Min(20, Len(answer.d["items"])))

\* the result put together from the payloads looked up by name
MergedByName ==
    IF handler \in PackNames THEN PackMergedByName
    ELSE IF handler = "get_financial_statements"
    THEN IF Len(calls) = 3
         THEN /\ Get(result[1], "income_statement") = ResponseOfOp("fetch_income_statement")
              /\ Get(result[1], "balance_sheet") = ResponseOfOp("fetch_balance_sheet")
              /\ Get(result[1], "cash_flow") = ResponseOfOp("fetch_cash_flow")
         ELSE result[1] = responses[1]
    ELSE \A i \in 1..Len(ComposerData) :
            Get(ComposerData[i], "raw_data") = ResponseOfMetric(Metrics[i])

---------------------------------------------------------------------------
(* Any one handler invocation *)

Next == NextTimeSeries \/ NextAnalyze \/ NextPacks \/ NextTabular \/ NextHandlers

Spec == Init /\ [][Next]_vars

\* any one handler invocation, with Data Source calls that may fail
SpecFailures == Init /\ [][Next \/ DataSourceFails]_vars

====
